---- MODULE Spec2Model ----
(***************************************************************************)
(* State-machine model of the MySQL binary log reader (mysql_binlog):      *)
(* opening a source (BinlogFile::try_new_from_reader_name), the event      *)
(* framer (Event::read, BinlogEvents::next) and the stateful outer loop    *)
(* (EventIterator::next).                                                  *)
(*                                                                         *)
(* The source is a file of fileLen bytes.  Its first four bytes are the    *)
(* variable magic.  What the file holds at an offset is fixed but unknown  *)
(* to the reader until it reads there: file[o] records what has been read  *)
(* at offset o (<<>> nothing yet, <<h>> a header whose body is cut off by  *)
(* the end of the file, <<h, b>> a header and its body), and every later   *)
(* read at o sees the same content.                                        *)
(*                                                                         *)
(* A body is kept as the fields its decoder reads (EventData::from_data),  *)
(* not as bytes; the header fields timestamp, server_id and flags are      *)
(* copied through by the code and are left out.                            *)
(*                                                                         *)
(* EventIterator::next is a while loop that may run for any number of      *)
(* iterations; Call enters it and every Step is one iteration (one call of *)
(* BinlogEvents::next plus the handling of the framed event).              *)
(***************************************************************************)
EXTENDS Integers, Sequences, FiniteSets, TLC

VARIABLES
    magic,              \* bytes 0..3 of the source
    fileLen,            \* length of the source in bytes
    file,               \* what has been read so far at each slot offset
    status,             \* "new", "failed" (open returned Err), "open" (BinlogFile), "iter" (EventIterator)
    openErr,            \* the BinlogParseError of a failed open
    first_event_offset, \* BinlogFile.first_event_offset
    offset,             \* BinlogEvents.offset : Option<u64>
    table_map,          \* EventIterator.table_map
    current_gtid,       \* EventIterator.current_gtid : Option<Gtid>
    logical_timestamp,  \* EventIterator.logical_timestamp : Option<LogicalTimestamp>
    pc,                 \* "idle": no call of next() in progress; "loop": inside the while loop
    ret,                \* what the last call of EventIterator::next returned
    raw,                \* what the last call of BinlogEvents::next returned (history)
    maxEmitted,         \* largest offset of an event returned so far, -1 if none (history)
    lastGtidLog,        \* the Gtid Log event decoded most recently, if any (history)
    errored,            \* some earlier call of next() returned an error (history)
    rotated,            \* the framer has yielded a Rotate event (history)
    start_position,     \* BinlogFileParserBuilder.start_position : Option<u64>
    input,              \* the arguments of a function applied on its own
    output,             \* what that function returned
    bitset,             \* a BitSet object
    written             \* for each index, the value the last set/unset on it wrote (history)

\* the state of the functions and objects that are exercised on their own
fnVars == <<input, output, bitset, written>>

vars == <<magic, fileLen, file, status, openErr, first_event_offset, offset,
          table_map, current_gtid, logical_timestamp, pc, ret, raw,
          maxEmitted, lastGtidLog, errored, rotated, start_position, fnVars>>

\* Option<T>
None == <<>>
Some(x) == <<x>>

(***************************************************************************)
(* Bounds and input sets                                                   *)
(***************************************************************************)
\* table ids that occur in the bodies of Table Map and rows events
MaxTableId == 1
TableIds == 1..MaxTableId

\* offsets at which events start.  SlotEnd is the end of the longest source
\* with arbitrary content, which holds events at 4, 104 and 204; LogEnd is the
\* end of a well-formed log, which holds events at all four slots.
Slots == {4, 104, 204, 304}
SlotEnd == 100 + 204
LogEnd == 100 + 304
\* the values of next_position in headers of sources with arbitrary content
NextPositions == {4, 104, 204, SlotEnd}

\* file lengths: too short for the magic, for the first header, for the
\* first body; cutting the header at 204; cutting the body at 204; complete
FileLens == {2, 10, 30, 210, 230, SlotEnd}

MagicBytes == {0, 98, 105, 110, 254}
Magics == [1..4 -> MagicBytes]

\* type-code bytes found in headers
TypeBytes == {2, 4, 15, 19, 23, 24, 25, 30, 31, 32, 33, 34}

EventLengths == {100}

Headers == [type_code : TypeBytes, event_length : EventLengths, next_position : NextPositions]
NoHeader == [type_code |-> 0, event_length |-> 0, next_position |-> 0]

\* The fields of a body that the decoders read.  complete: the body is long
\* enough for every fixed-size read of its decoder.
DefaultBody ==
    [complete |-> TRUE, table_id |-> 0, schema_name |-> "", table_name |-> "",
     columns |-> <<>>, payload |-> "", uuid |-> 0, coordinate |-> 0, trailer |-> <<>>,
     query |-> ""]
ShortBody == [DefaultBody EXCEPT !.complete = FALSE]

\* Gtid Log bodies: (uuid, coordinate, bytes after the coordinate); a
\* trailer <<2, lc, sn>> is the 0x02 byte and its two 8-byte fields
GtidInputs == {<<1, 7, <<>>>>, <<2, 8, <<2, 5, 6>>>>}

RowsBytes == {23, 24, 25, 30, 31, 32}

Bodies(b) ==
    CASE b = 2  -> {ShortBody, [DefaultBody EXCEPT !.query = "q"]}
      [] b = 15 -> {ShortBody, DefaultBody}
      [] b = 19 -> {ShortBody} \cup
                   {[DefaultBody EXCEPT !.table_id = i, !.schema_name = "s", !.table_name = "t",
                                        !.columns = <<"Tiny">>] :
                        i \in TableIds}
      [] b \in RowsBytes -> {ShortBody} \cup
                   {[DefaultBody EXCEPT !.table_id = i, !.payload = p] :
                        i \in TableIds, p \in {"row", "bad"}}
      [] b = 33 -> {ShortBody} \cup
                   {[DefaultBody EXCEPT !.uuid = g[1], !.coordinate = g[2], !.trailer = g[3]] :
                        g \in GtidInputs}
      [] OTHER  -> {DefaultBody}

\* The bodies of the events of a well-formed log: also a Table Map body that
\* gives a table id another name and column list, and a Gtid Log body whose
\* byte after the coordinate is not 0x02
LogBodies(b) ==
    CASE b = 19 -> Bodies(19) \cup
                   {[DefaultBody EXCEPT !.table_id = i, !.schema_name = "s", !.table_name = "u",
                                        !.columns = <<"Tiny", "Short">>] :
                        i \in TableIds}
      [] b = 33 -> Bodies(33) \cup
                   {[DefaultBody EXCEPT !.uuid = 1, !.coordinate = 7, !.trailer = <<1>>]}
      [] OTHER  -> Bodies(b)

(***************************************************************************)
(* event.rs                                                                *)
(***************************************************************************)
\* TypeCode::from_byte
TypeCode_from_byte(b) ==
    CASE b = 0  -> "Unknown"
      [] b = 1  -> "StartEventV3"
      [] b = 2  -> "QueryEvent"
      [] b = 3  -> "StopEvent"
      [] b = 4  -> "RotateEvent"
      [] b = 5  -> "IntvarEvent"
      [] b = 6  -> "LoadEvent"
      [] b = 7  -> "SlaveEvent"
      [] b = 8  -> "CreateFileEvent"
      [] b = 9  -> "AppendBlockEvent"
      [] b = 10 -> "ExecLoadEvent"
      [] b = 11 -> "DeleteFileEvent"
      [] b = 12 -> "NewLoadEvent"
      [] b = 13 -> "RandEvent"
      [] b = 14 -> "UserVarEvent"
      [] b = 15 -> "FormatDescriptionEvent"
      [] b = 16 -> "XidEvent"
      [] b = 17 -> "BeginLoadQueryEvent"
      [] b = 18 -> "ExecuteLoadQueryEvent"
      [] b = 19 -> "TableMapEvent"
      [] b = 20 -> "PreGaWriteRowsEvent"
      [] b = 21 -> "PreGaUpdateRowsEvent"
      [] b = 22 -> "PreGaDeleteRowsEvent"
      [] b = 23 -> "WriteRowsEventV1"
      [] b = 24 -> "UpdateRowsEventV1"
      [] b = 25 -> "DeleteRowsEventV1"
      [] b = 26 -> "IncidentEvent"
      [] b = 27 -> "HeartbeatLogEvent"
      [] b = 28 -> "IgnorableLogEvent"
      [] b = 29 -> "RowsQueryLogEvent"
      [] b = 30 -> "WriteRowsEventV2"
      [] b = 31 -> "UpdateRowsEventV2"
      [] b = 32 -> "DeleteRowsEventV2"
      [] b = 33 -> "GtidLogEvent"
      [] b = 34 -> "AnonymousGtidLogEvent"
      [] b = 35 -> "PreviousGtidsLogEvent"
      [] OTHER  -> "OtherUnknown"

WriteRowsTypes == {"WriteRowsEventV1", "WriteRowsEventV2"}
UpdateRowsTypes == {"UpdateRowsEventV1", "UpdateRowsEventV2"}
DeleteRowsTypes == {"DeleteRowsEventV1", "DeleteRowsEventV2"}
RowsTypes == WriteRowsTypes \cup UpdateRowsTypes \cup DeleteRowsTypes

\* table_map.rs: TableMap::new, TableMap::handle, TableMap::get
TableMap_new == [i \in TableIds |-> None]

TableMap_handle_KeepsFirst(tm, table_id, schema_name, table_name, columns) ==
    IF tm[table_id] # None THEN tm
    ELSE [tm EXCEPT ![table_id] = Some([schema_name |-> schema_name,
                                        table_name |-> table_name,
                                        columns |-> columns])]

TableMap_handle(tm, table_id, schema_name, table_name, columns) ==
    [tm EXCEPT ![table_id] = Some([schema_name |-> schema_name,
                                   table_name |-> table_name,
                                   columns |-> columns])]

TableMap_get(tm, table_id) ==
    IF table_id \in DOMAIN tm THEN tm[table_id] ELSE None

\* Result<Option<EventData>, EventParseError>: tag is "Err", "None" (Ok(None))
\* or "Some" (Ok(Some(variant {...})))
NoData ==
    [tag |-> "None", err |-> "", variant |-> "", table_id |-> 0, schema_name |-> "",
     table_name |-> "", columns |-> <<>>, uuid |-> 0, coordinate |-> 0,
     last_committed |-> None,
     sequence_number |-> None, rows |-> <<>>, query |-> ""]
ErrData(e) == [NoData EXCEPT !.tag = "Err", !.err = e]

\* the RowEvent variant a rows event of this type produces per row
RowVariant(type_code) ==
    CASE type_code \in WriteRowsTypes  -> "NewRow"
      [] type_code \in UpdateRowsTypes -> "UpdatedRow"
      [] type_code \in DeleteRowsTypes -> "DeletedRow"

\* the RowEvent of a row decoded against this_table_map: its variant and the
\* number of entries of its column sequences
RowEvent(type_code, this_table_map) ==
    [variant |-> RowVariant(type_code), cols |-> Len(this_table_map.columns)]

parse_rows_event_MissIsError(type_code, data, tm) ==
    IF ~data.complete THEN ErrData("ColumnParseError")
    ELSE LET known == tm # None /\ TableMap_get(tm[1], data.table_id) # None
         IN  IF ~known \/ data.payload = "bad" THEN ErrData("ColumnParseError")
             ELSE [NoData EXCEPT !.tag = "Some",
                                 !.table_id = data.table_id,
                                 !.rows = <<RowEvent(type_code,
                                                     TableMap_get(tm[1], data.table_id)[1])>>]

\* parse_rows_event: table id, reserved bytes, column count and presence
\* bitmaps are read first; the row loop runs only when a table map is given
\* and knows the table id.  table_map is an Option<&TableMap>.
parse_rows_event(type_code, data, tm) ==
    IF ~data.complete THEN ErrData("ColumnParseError")
    ELSE LET known == tm # None /\ TableMap_get(tm[1], data.table_id) # None
         IN  IF known /\ data.payload = "bad" THEN ErrData("ColumnParseError")
             ELSE [NoData EXCEPT !.tag = "Some",
                                 !.table_id = data.table_id,
                                 !.rows = IF known
                                          THEN <<RowEvent(type_code,
                                                          TableMap_get(tm[1], data.table_id)[1])>>
                                          ELSE <<>>]

\* EventData::from_data
from_data(type_code, data, tm) ==
    CASE type_code = "FormatDescriptionEvent" ->
            IF ~data.complete THEN ErrData("Io")
            ELSE [NoData EXCEPT !.tag = "Some", !.variant = "FormatDescriptionEvent"]
      [] type_code = "GtidLogEvent" ->
            IF ~data.complete THEN ErrData("Io")
            ELSE IF data.trailer # <<>> /\ data.trailer[1] = 2
                 THEN IF Len(data.trailer) < 3 THEN ErrData("Io")
                      ELSE [NoData EXCEPT !.tag = "Some", !.variant = "GtidLogEvent",
                                          !.uuid = data.uuid, !.coordinate = data.coordinate,
                                          !.last_committed = Some(data.trailer[2]),
                                          !.sequence_number = Some(data.trailer[3])]
                 ELSE [NoData EXCEPT !.tag = "Some", !.variant = "GtidLogEvent",
                                     !.uuid = data.uuid, !.coordinate = data.coordinate]
      [] type_code = "QueryEvent" ->
            IF ~data.complete THEN ErrData("Io")
            ELSE [NoData EXCEPT !.tag = "Some", !.variant = "QueryEvent", !.query = data.query]
      [] type_code = "TableMapEvent" ->
            IF ~data.complete THEN ErrData("Io")
            ELSE [NoData EXCEPT !.tag = "Some", !.variant = "TableMapEvent",
                                !.table_id = data.table_id,
                                !.schema_name = data.schema_name,
                                !.table_name = data.table_name,
                                !.columns = data.columns]
      [] type_code \in WriteRowsTypes ->
            LET ev == parse_rows_event(type_code, data, tm)
            IN  IF ev.tag = "Err" THEN ev ELSE [ev EXCEPT !.variant = "WriteRowsEvent"]
      [] type_code \in UpdateRowsTypes ->
            LET ev == parse_rows_event(type_code, data, tm)
            IN  IF ev.tag = "Err" THEN ev ELSE [ev EXCEPT !.variant = "UpdateRowsEvent"]
      [] type_code \in DeleteRowsTypes ->
            LET ev == parse_rows_event(type_code, data, tm)
            IN  IF ev.tag = "Err" THEN ev ELSE [ev EXCEPT !.variant = "DeleteRowsEvent"]
      [] OTHER -> NoData

\* struct Event (timestamp, server_id and flags left out)
NoEvent == [type_code |-> "", event_length |-> 0, next_position |-> 0,
            data |-> DefaultBody, offset |-> 0]

\* Event::inner
Event_inner(event, tm) == from_data(event.type_code, event.data, tm)

\* the bytes the source holds from offset o on
Avail(o) == IF fileLen > o THEN fileLen - o ELSE 0

HEADER_LEN == 19
CHECKSUM_LEN == 4

\* data_length in Event::read: (event_length - 19) as usize, then -= 4.  The
\* first subtraction is on u32 and the second on usize; one that goes below
\* zero panics in a build with overflow checks and wraps in a build without.
\* wrapped is "no", "u32" (the value is 2^32 + value) or "usize" (the value
\* is 2^64 + value, 2^32 + value where usize has 32 bits).
data_length_of(event_length, overflow_checks) ==
    LET plain == event_length - HEADER_LEN - CHECKSUM_LEN
    IN  IF event_length < HEADER_LEN
        THEN IF overflow_checks THEN [tag |-> "Panic", wrapped |-> "no", value |-> 0]
             ELSE [tag |-> "Ok", wrapped |-> "u32", value |-> plain]
        ELSE IF event_length - HEADER_LEN < CHECKSUM_LEN
        THEN IF overflow_checks THEN [tag |-> "Panic", wrapped |-> "no", value |-> 0]
             ELSE [tag |-> "Ok", wrapped |-> "usize", value |-> plain]
        ELSE [tag |-> "Ok", wrapped |-> "no", value |-> plain]

\* Event::read from the body length on, with avail bytes after the header:
\* the buffer vec![0u8; data_length] and read_exact into it.  A buffer of
\* about 2^64 bytes panics (capacity overflow); one of about 2^32 bytes is
\* allocated or aborts the program (alloc_ok), and is then not filled.
Event_read_body(event_length, avail, overflow_checks, alloc_ok) ==
    LET body(n) ==
            IF n.tag = "Panic"
            THEN [tag |-> "Panic", err |-> "", data_length |-> n, buffer |-> "none"]
            ELSE IF n.wrapped = "usize" \/ (n.wrapped = "u32" /\ ~alloc_ok)
            THEN [tag |-> "Panic", err |-> "", data_length |-> n, buffer |-> "none"]
            ELSE IF n.wrapped = "u32"
            THEN [tag |-> "Err", err |-> "Io", data_length |-> n, buffer |-> "huge"]
            ELSE IF avail < n.value
            THEN [tag |-> "Err", err |-> "Io", data_length |-> n, buffer |-> "exact"]
            ELSE [tag |-> "Ok", err |-> "", data_length |-> n, buffer |-> "exact"]
    IN  body(data_length_of(event_length, overflow_checks))

\* Event::read at offset o of a source that holds header h and body b there:
\* Result<Event, EventParseError>.  The headers of the source have an
\* event_length of HEADER_LEN + CHECKSUM_LEN or more.
Event_read(o, h, b) ==
    IF Avail(o) < HEADER_LEN
    THEN [tag |-> "Err", err |-> "EofError", event |-> NoEvent]
    ELSE LET data_length == data_length_of(h.event_length, TRUE).value
         IN  IF Avail(o) - HEADER_LEN < data_length
             THEN [tag |-> "Err", err |-> "Io", event |-> NoEvent]
             ELSE [tag |-> "Ok", err |-> "",
                   event |-> [type_code |-> TypeCode_from_byte(h.type_code),
                              event_length |-> h.event_length,
                              next_position |-> h.next_position,
                              data |-> b, offset |-> o]]

(***************************************************************************)
(* binlog_file.rs                                                          *)
(***************************************************************************)
GoodMagic == <<254, 98, 105, 110>>

NoOpenErr == [kind |-> "", magic |-> <<>>, inner |-> ""]

MagicOk_FirstByte(mg) == mg[1] = GoodMagic[1]

\* magic != [0xfe, 0x62, 0x69, 0x6e], negated
MagicOk(mg) == mg = GoodMagic

\* BinlogFile::try_new_from_reader_name on a source whose first bytes are mg
\* and which holds header h and body b at offset 4:
\* Result<BinlogFile, BinlogParseError>
try_new_from_reader_name(mg, h, b) ==
    IF fileLen < 4
    THEN [tag |-> "Err", err |-> [NoOpenErr EXCEPT !.kind = "Io"], first_event_offset |-> 0]
    ELSE IF ~MagicOk(mg)
    THEN [tag |-> "Err", err |-> [NoOpenErr EXCEPT !.kind = "BadMagic", !.magic = mg],
          first_event_offset |-> 0]
    ELSE LET fde == Event_read(4, h, b)
         IN  IF fde.tag = "Err"
             THEN [tag |-> "Err",
                   err |-> [NoOpenErr EXCEPT !.kind = "EventParseError", !.inner = fde.err],
                   first_event_offset |-> 0]
             ELSE LET inner == Event_inner(fde.event, None)
                  IN  CASE inner.tag = "Err" ->
                              [tag |-> "Err",
                               err |-> [NoOpenErr EXCEPT !.kind = "EventParseError",
                                                         !.inner = inner.err],
                               first_event_offset |-> 0]
                        [] inner.tag = "Some" ->
                              [tag |-> "Ok", err |-> NoOpenErr,
                               first_event_offset |-> fde.event.next_position]
                        [] inner.tag = "None" ->
                              [tag |-> "Err", err |-> [NoOpenErr EXCEPT !.kind = "BadFirstRecord"],
                               first_event_offset |-> 0]

BinlogFile_events_IgnoresStart(first, start) == Some(first)

\* BinlogFile::events and BinlogEvents::new: the offset the framer starts at,
\* offset.unwrap_or(self.first_event_offset)
BinlogFile_events(first, start) == IF start = None THEN Some(first) ELSE start

\* BinlogFile::read_at: seek to o, then Event::read
read_at(o, h, b) == Event_read(o, h, b)

NextOffset_IgnoresRotate(event) == Some(event.next_position)

\* the new self.offset after event was read
NextOffset(event) ==
    IF event.type_code = "RotateEvent" THEN None ELSE Some(event.next_position)

ReadErrArm_SurfacesEof(off, err) ==
    IF err = "Io"
    THEN [kind |-> "None", err |-> "", event |-> NoEvent, offset |-> off]
    ELSE [kind |-> "Err", err |-> err, event |-> NoEvent, offset |-> off]

\* the Err arms of the match on read_at: Io and EofError end the call with
\* no item, any other error is the item
ReadErrArm(off, err) ==
    IF err \in {"Io", "EofError"}
    THEN [kind |-> "None", err |-> "", event |-> NoEvent, offset |-> off]
    ELSE [kind |-> "Err", err |-> err, event |-> NoEvent, offset |-> off]

\* BinlogEvents::next with self.offset = off, on a source that holds header h
\* and body b at that offset: the item (Option<Result<Event, _>>: kind is
\* "None", "Err" or "Ok") and the new self.offset
BinlogEvents_next(off, h, b) ==
    IF off = None
    THEN [kind |-> "None", err |-> "", event |-> NoEvent, offset |-> off]
    ELSE LET r == read_at(off[1], h, b)
         IN  IF r.tag = "Err"
             THEN ReadErrArm(off, r.err)
             ELSE [kind |-> "Ok", err |-> "", event |-> r.event,
                   offset |-> NextOffset(r.event)]

(***************************************************************************)
(* lib.rs                                                                  *)
(***************************************************************************)
\* struct BinlogEvent (timestamp left out)
NoBinlogEvent ==
    [type_code |-> "", gtid |-> None, logical_timestamp |-> None, schema_name |-> None,
     table_name |-> None, rows |-> <<>>, query |-> None, offset |-> 0]

\* what one iteration of the loop does: kind "continue" goes round again,
\* "None", "Err" and "Ok" are the return values of next()
Continue == [kind |-> "continue", err |-> "", ev |-> NoBinlogEvent]
Pending == [kind |-> "pending", err |-> "", ev |-> NoBinlogEvent]
ReturnNone == [kind |-> "None", err |-> "", ev |-> NoBinlogEvent]
ReturnErr(e) == [kind |-> "Err", err |-> e, ev |-> NoBinlogEvent]
ReturnOk(e) == [kind |-> "Ok", err |-> "", ev |-> e]

\* The arms of the match in EventIterator::next.  Each takes the framed
\* event, its decoded EventData e and the iterator state (tm, gtid, lt) and
\* gives the new iterator state and what the iteration does.
Keep(tm, gtid, lt, out) ==
    [table_map |-> tm, current_gtid |-> gtid, logical_timestamp |-> lt, out |-> out]

GtidLogArm_KeepsTimestamp(event, e, tm, gtid, lt) ==
    [table_map |-> tm,
     current_gtid |-> Some(<<e.uuid, e.coordinate>>),
     logical_timestamp |->
         IF e.last_committed # None /\ e.sequence_number # None
         THEN Some(<<e.last_committed[1], e.sequence_number[1]>>)
         ELSE lt,
     out |-> Continue]

\* EventData::GtidLogEvent
GtidLogArm(event, e, tm, gtid, lt) ==
    [table_map |-> tm,
     current_gtid |-> Some(<<e.uuid, e.coordinate>>),
     logical_timestamp |->
         IF e.last_committed # None /\ e.sequence_number # None
         THEN Some(<<e.last_committed[1], e.sequence_number[1]>>)
         ELSE None,
     out |-> Continue]

TableMapArm_ClearsGtid(event, e, tm, gtid, lt) ==
    Keep(TableMap_handle(tm, e.table_id, e.schema_name, e.table_name, e.columns), None, None, Continue)

\* EventData::TableMapEvent
TableMapArm(event, e, tm, gtid, lt) ==
    Keep(TableMap_handle(tm, e.table_id, e.schema_name, e.table_name, e.columns), gtid, lt, Continue)

\* EventData::QueryEvent
QueryArm(event, e, tm, gtid, lt) ==
    Keep(tm, gtid, lt,
         ReturnOk([type_code |-> event.type_code,
                   gtid |-> gtid,
                   logical_timestamp |-> lt,
                   table_name |-> None,
                   schema_name |-> None,
                   rows |-> <<>>,
                   query |-> Some(e.query),
                   offset |-> event.offset]))

RowsArm_DropsSchema(event, e, tm, gtid, lt) ==
    LET maybe_table == TableMap_get(tm, e.table_id)
    IN  Keep(tm, gtid, lt,
             ReturnOk([type_code |-> event.type_code,
                       gtid |-> gtid,
                       logical_timestamp |-> lt,
                       table_name |-> IF maybe_table = None THEN None
                                      ELSE Some(maybe_table[1].table_name),
                       schema_name |-> None,
                       rows |-> e.rows,
                       query |-> None,
                       offset |-> event.offset]))

\* EventData::WriteRowsEvent | UpdateRowsEvent | DeleteRowsEvent
RowsArm(event, e, tm, gtid, lt) ==
    LET maybe_table == TableMap_get(tm, e.table_id)
    IN  Keep(tm, gtid, lt,
             ReturnOk([type_code |-> event.type_code,
                       gtid |-> gtid,
                       logical_timestamp |-> lt,
                       table_name |-> IF maybe_table = None THEN None
                                      ELSE Some(maybe_table[1].table_name),
                       schema_name |-> IF maybe_table = None THEN None
                                       ELSE Some(maybe_table[1].schema_name),
                       rows |-> e.rows,
                       query |-> None,
                       offset |-> event.offset]))

OtherArm_Emits(event, e, tm, gtid, lt) ==
    Keep(tm, gtid, lt,
         ReturnOk([NoBinlogEvent EXCEPT !.type_code = event.type_code,
                                        !.gtid = gtid,
                                        !.logical_timestamp = lt,
                                        !.offset = event.offset]))

\* u => eprintln!("unhandled event")
OtherArm(event, e, tm, gtid, lt) == Keep(tm, gtid, lt, Continue)

InnerErrArm_Skips(e, tm, gtid, lt) == Keep(tm, gtid, lt, Continue)

\* Err(e) => return Some(Err(e)) for the result of event.inner
InnerErrArm(e, tm, gtid, lt) == Keep(tm, gtid, lt, ReturnErr(e.err))

\* the body of the while loop of EventIterator::next for the item the framer
\* returned, in iterator state (tm, gtid, lt): the new iterator state and
\* what the iteration does
EventIterator_body(item, tm, gtid, lt) ==
    CASE item.kind = "None" -> Keep(tm, gtid, lt, ReturnNone)
      [] item.kind = "Err"  -> Keep(tm, gtid, lt, ReturnErr(item.err))
      [] item.kind = "Ok"   ->
            LET event == item.event
                e == Event_inner(event, Some(tm))
            IN
            CASE e.tag = "Err"  -> InnerErrArm(e, tm, gtid, lt)
              [] e.tag = "None" -> Keep(tm, gtid, lt, Continue)
              [] e.tag = "Some" ->
                    CASE e.variant = "GtidLogEvent"  -> GtidLogArm(event, e, tm, gtid, lt)
                      [] e.variant = "TableMapEvent" -> TableMapArm(event, e, tm, gtid, lt)
                      [] e.variant = "QueryEvent"    -> QueryArm(event, e, tm, gtid, lt)
                      [] e.variant \in {"WriteRowsEvent", "UpdateRowsEvent", "DeleteRowsEvent"} ->
                            RowsArm(event, e, tm, gtid, lt)
                      [] OTHER -> OtherArm(event, e, tm, gtid, lt)

(***************************************************************************)
(* The source                                                              *)
(***************************************************************************)
\* the header is within the file / the body of header h is within the file
HeaderInFile(o) == o \in Slots /\ Avail(o) >= HEADER_LEN
BodyInFile(o, h) ==
    HeaderInFile(o) /\ Avail(o) - HEADER_LEN >= h.event_length - HEADER_LEN - CHECKSUM_LEN

\* the headers and bodies the source may hold at offset o, given what has
\* been read there before
HeaderAt(o) ==
    IF ~HeaderInFile(o) THEN {NoHeader}
    ELSE IF file[o] # <<>> THEN {file[o][1]}
    ELSE Headers

BodyAt(o, h) ==
    IF ~BodyInFile(o, h) THEN {DefaultBody}
    ELSE IF Len(file[o]) = 2 THEN {file[o][2]}
    ELSE Bodies(h.type_code)

\* file after a read at o that found h and b
Reveal(o, h, b) ==
    IF ~HeaderInFile(o) THEN file
    ELSE IF ~BodyInFile(o, h) THEN [file EXCEPT ![o] = <<h>>]
    ELSE [file EXCEPT ![o] = <<h, b>>]

Max(a, b) == IF a >= b THEN a ELSE b

\* the positions a caller passes to start_position
StartPositions == Slots \ {4}

\* no function is being applied on its own
NoInput == [fn |-> ""]
NoOutput == [tag |-> ""]
NoBitSet == [num_elems |-> 0, inner |-> <<>>]
FnIdle ==
    /\ input = NoInput
    /\ output = NoOutput
    /\ bitset = NoBitSet
    /\ written = <<>>

NoRaw == [kind |-> "", type_code |-> "", offset |-> 0]

\* nothing has been read from the source
NothingRead == [o \in Slots |-> <<>>]

\* A well-formed log: a Format Description event at offset 4 and three events
\* of the kinds the iterator handles, each header pointing at the next event.
LogTypeBytes == {2, 19, 30, 33}
LogFiles ==
    {[o \in Slots |->
         IF o = 4
         THEN <<[type_code |-> 15, event_length |-> 100, next_position |-> 104], DefaultBody>>
         ELSE <<[type_code |-> e[(o - 4) \div 100][1], event_length |-> 100,
                 next_position |-> o + 100],
                e[(o - 4) \div 100][2]>>] :
        e \in [1..3 -> UNION {{<<b, d>> : d \in LogBodies(b)} : b \in LogTypeBytes}]}

(***************************************************************************)
(* Actions                                                                 *)
(***************************************************************************)
Init ==
    /\ magic \in Magics
    /\ fileLen \in FileLens
    /\ file = NothingRead
    /\ status = "new"
    /\ openErr = NoOpenErr
    /\ first_event_offset = 0
    /\ offset = None
    /\ table_map = TableMap_new
    /\ current_gtid = None
    /\ logical_timestamp = None
    /\ pc = "idle"
    /\ ret = Pending
    /\ raw = NoRaw
    /\ maxEmitted = -1
    /\ lastGtidLog = None
    /\ errored = FALSE
    /\ rotated = FALSE
    /\ start_position = None
    /\ FnIdle

\* BinlogFile::try_from_reader
TryNew ==
    /\ status = "new"
    /\ \E h \in HeaderAt(4) : \E b \in BodyAt(4, h) :
          LET r == try_new_from_reader_name(magic, h, b)
          IN  /\ file' = IF fileLen >= 4 /\ magic = GoodMagic THEN Reveal(4, h, b) ELSE file
              /\ status' = IF r.tag = "Ok" THEN "open" ELSE "failed"
              /\ openErr' = r.err
              /\ first_event_offset' = r.first_event_offset
    /\ UNCHANGED <<magic, fileLen, offset, table_map, current_gtid, logical_timestamp,
                   pc, ret, raw, maxEmitted, lastGtidLog, errored, rotated,
                   start_position, fnVars>>

\* BinlogFileParserBuilder::start_position
StartPosition ==
    /\ status = "open"
    /\ \E pos \in StartPositions : start_position' = Some(pos)
    /\ UNCHANGED <<magic, fileLen, file, status, openErr, first_event_offset, offset,
                   table_map, current_gtid, logical_timestamp, pc, ret, raw,
                   maxEmitted, lastGtidLog, errored, rotated, fnVars>>

\* BinlogFileParserBuilder::build: EventIterator::new
Build ==
    /\ status = "open"
    /\ status' = "iter"
    /\ offset' = BinlogFile_events(first_event_offset, start_position)
    /\ table_map' = TableMap_new
    /\ current_gtid' = None
    /\ logical_timestamp' = None
    /\ UNCHANGED <<magic, fileLen, file, openErr, first_event_offset, pc, ret, raw,
                   maxEmitted, lastGtidLog, errored, rotated, start_position, fnVars>>

\* the caller calls EventIterator::next
Call ==
    /\ status = "iter"
    /\ pc = "idle"
    /\ pc' = "loop"
    /\ ret' = Pending
    /\ UNCHANGED <<magic, fileLen, file, status, openErr, first_event_offset, offset,
                   table_map, current_gtid, logical_timestamp, raw, maxEmitted,
                   lastGtidLog, errored, rotated, start_position, fnVars>>

\* the Gtid Log event an item of the framer decodes to, if it is one
GtidLogOf(item, tm) ==
    IF item.kind = "Ok" /\ item.event.type_code = "GtidLogEvent"
       /\ Event_inner(item.event, Some(tm)).tag = "Some"
    THEN LET e == Event_inner(item.event, Some(tm))
         IN  Some([gtid |-> Some(<<e.uuid, e.coordinate>>),
                   logical_timestamp |->
                       IF e.last_committed # None
                       THEN Some(<<e.last_committed[1], e.sequence_number[1]>>)
                       ELSE None])
    ELSE None

\* one iteration of the while loop of EventIterator::next
Step ==
    /\ status = "iter"
    /\ pc = "loop"
    /\ LET o == IF offset = None THEN SlotEnd ELSE offset[1]
       IN  \E h \in HeaderAt(o) : \E b \in BodyAt(o, h) :
             LET item == BinlogEvents_next(offset, h, b)
                 it == EventIterator_body(item, table_map, current_gtid, logical_timestamp)
             IN  /\ file' = IF offset = None THEN file ELSE Reveal(o, h, b)
                 /\ offset' = item.offset
                 /\ table_map' = it.table_map
                 /\ current_gtid' = it.current_gtid
                 /\ logical_timestamp' = it.logical_timestamp
                 /\ pc' = IF it.out.kind = "continue" THEN "loop" ELSE "idle"
                 /\ ret' = IF it.out.kind = "continue" THEN ret ELSE it.out
                 /\ raw' = [kind |-> item.kind, type_code |-> item.event.type_code,
                            offset |-> item.event.offset]
                 /\ maxEmitted' = IF it.out.kind = "Ok"
                                  THEN Max(maxEmitted, it.out.ev.offset)
                                  ELSE maxEmitted
                 /\ lastGtidLog' = IF GtidLogOf(item, table_map) # None
                                   THEN GtidLogOf(item, table_map)
                                   ELSE lastGtidLog
                 /\ errored' = (errored \/ it.out.kind = "Err")
                 /\ rotated' = (rotated \/ (item.kind = "Ok"
                                            /\ item.event.type_code = "RotateEvent"))
    /\ UNCHANGED <<magic, fileLen, status, openErr, first_event_offset,
                   start_position, fnVars>>

Next == TryNew \/ Build \/ Call \/ Step

Spec == Init /\ [][Next]_vars

\* A call of next() that has not returned goes on: the loop is a sequential
\* program that takes its next turn
SpecFair == Spec /\ WF_vars(Step)

\* Reading a well-formed log whose content is known from the start, with or
\* without a start position
InitLog ==
    /\ magic = GoodMagic
    /\ fileLen = LogEnd
    /\ file \in LogFiles
    /\ status = "new"
    /\ openErr = NoOpenErr
    /\ first_event_offset = 0
    /\ offset = None
    /\ table_map = TableMap_new
    /\ current_gtid = None
    /\ logical_timestamp = None
    /\ pc = "idle"
    /\ ret = Pending
    /\ raw = NoRaw
    /\ maxEmitted = -1
    /\ lastGtidLog = None
    /\ errored = FALSE
    /\ rotated = FALSE
    /\ start_position = None
    /\ FnIdle

NextLog == TryNew \/ StartPosition \/ Build \/ Call \/ Step

SpecLog == InitLog /\ [][NextLog]_vars

TypeOK ==
    /\ status \in {"new", "failed", "open", "iter"}
    /\ pc \in {"idle", "loop"}
    /\ ret.kind \in {"pending", "None", "Err", "Ok"}
    /\ offset = None \/ offset[1] \in NextPositions \cup {LogEnd}

iterVars == <<magic, fileLen, file, status, openErr, first_event_offset, offset,
              table_map, current_gtid, logical_timestamp, pc, ret, raw,
              maxEmitted, lastGtidLog, errored, rotated, start_position>>

\* a function applied on its own: the iterator is not in use
IterUnused ==
    /\ magic = GoodMagic
    /\ fileLen = SlotEnd
    /\ file = NothingRead
    /\ status = "new"
    /\ openErr = NoOpenErr
    /\ first_event_offset = 0
    /\ offset = None
    /\ table_map = TableMap_new
    /\ current_gtid = None
    /\ logical_timestamp = None
    /\ pc = "idle"
    /\ ret = Pending
    /\ raw = NoRaw
    /\ maxEmitted = -1
    /\ lastGtidLog = None
    /\ errored = FALSE
    /\ rotated = FALSE
    /\ start_position = None

(***************************************************************************)
(* bit_set.rs                                                              *)
(***************************************************************************)
\* the largest num_elems and index passed to a BitSet
MaxBits == 9

\* bit k (0 = least significant) of a byte
Bit(byte, k) == (byte \div (2 ^ k)) % 2

\* u8::count_ones
count_ones(byte) ==
    Bit(byte, 0) + Bit(byte, 1) + Bit(byte, 2) + Bit(byte, 3)
        + Bit(byte, 4) + Bit(byte, 5) + Bit(byte, 6) + Bit(byte, 7)

\* (num_elems + 7) >> 3
vec_len(num_elems) == (num_elems + 7) \div 8

\* BitSet::new
BitSet_new(num_elems) ==
    [num_elems |-> num_elems, inner |-> [i \in 1..vec_len(num_elems) |-> 0]]

BitSet_from_slice_KeepsAll(num_elems, slice) ==
    IF Len(slice) < vec_len(num_elems)
    THEN [tag |-> "Err", err |-> "SliceTooSmall", value |-> NoBitSet]
    ELSE [tag |-> "Ok", err |-> "",
          value |-> [num_elems |-> num_elems, inner |-> slice]]

\* BitSet::from_slice: Result<BitSet, BitSetError>
BitSet_from_slice(num_elems, slice) ==
    IF Len(slice) < vec_len(num_elems)
    THEN [tag |-> "Err", err |-> "SliceTooSmall", value |-> NoBitSet]
    ELSE [tag |-> "Ok", err |-> "",
          value |-> [num_elems |-> num_elems,
                     inner |-> SubSeq(slice, 1, vec_len(num_elems))]]

\* BitSet::get_byte_offset: the index into inner (from 1 here), or a panic
get_byte_offset(bs, item) ==
    IF item >= bs.num_elems
    THEN [tag |-> "Panic", value |-> 0]
    ELSE [tag |-> "Ok", value |-> (item \div 8) + 1]

BitSet_set_value_ClobbersByte(bs, item, value) ==
    LET byte_offset == get_byte_offset(bs, item)
    IN  IF byte_offset.tag = "Panic" THEN [tag |-> "Panic", value |-> bs]
        ELSE [tag |-> "Ok",
              value |-> [bs EXCEPT !.inner[byte_offset.value] =
                            IF value THEN 2 ^ (item % 8) ELSE 0]]

\* BitSet::set_value: the BitSet after the call, or a panic
\*   inner[byte_offset] |= 1 << (item & 0x07)   /   inner[byte_offset] &= !(1 << (item & 0x07))
BitSet_set_value(bs, item, value) ==
    LET byte_offset == get_byte_offset(bs, item)
    IN  IF byte_offset.tag = "Panic" THEN [tag |-> "Panic", value |-> bs]
        ELSE LET byte == bs.inner[byte_offset.value]
                 mask == 2 ^ (item % 8)
                 isSet == Bit(byte, item % 8) = 1
             IN  [tag |-> "Ok",
                  value |-> [bs EXCEPT !.inner[byte_offset.value] =
                                IF value
                                THEN (IF isSet THEN byte ELSE byte + mask)
                                ELSE (IF isSet THEN byte - mask ELSE byte)]]

\* BitSet::set, BitSet::unset
BitSet_set(bs, item) == BitSet_set_value(bs, item, TRUE)
BitSet_unset(bs, item) == BitSet_set_value(bs, item, FALSE)

\* BitSet::is_set: a bool, or a panic
BitSet_is_set(bs, item) ==
    LET byte_offset == get_byte_offset(bs, item)
    IN  IF byte_offset.tag = "Panic" THEN [tag |-> "Panic", value |-> FALSE]
        ELSE [tag |-> "Ok", value |-> Bit(bs.inner[byte_offset.value], item % 8) # 0]

RECURSIVE SumOnes(_)
SumOnes(bytes) ==
    IF bytes = <<>> THEN 0 ELSE count_ones(Head(bytes)) + SumOnes(Tail(bytes))

\* BitSet::bits_set: the ones of every byte of inner
BitSet_bits_set(bs) == SumOnes(bs.inner)

\* byte values and slices handed to from_slice
ByteSamples == {0, 1, 165, 255}
SliceSamples == UNION {[1..n -> ByteSamples] : n \in 0..2} \cup {<<255, 0, 165>>}

NoBitSetCall == [fn |-> "", num_elems |-> 0, slice |-> <<>>, item |-> 0]

\* a BitSet on its own: nothing constructed yet
InitBitSet ==
    /\ IterUnused
    /\ input = NoBitSetCall
    /\ output = [tag |-> "", err |-> ""]
    /\ bitset = NoBitSet
    /\ written = <<>>

\* let b = BitSet::new(n)
BsNew ==
    /\ input.fn = ""
    /\ \E n \in 0..MaxBits :
          /\ input' = [NoBitSetCall EXCEPT !.fn = "new", !.num_elems = n]
          /\ output' = [tag |-> "Ok", err |-> ""]
          /\ bitset' = BitSet_new(n)
          /\ written' = [j \in 0..(n - 1) |-> FALSE]
    /\ UNCHANGED iterVars

\* let b = BitSet::from_slice(n, slice)
BsFromSlice ==
    /\ input.fn = ""
    /\ \E n \in 0..MaxBits, slice \in SliceSamples :
          LET r == BitSet_from_slice(n, slice)
          IN  /\ input' = [NoBitSetCall EXCEPT !.fn = "from_slice", !.num_elems = n,
                                               !.slice = slice]
              /\ output' = [tag |-> r.tag, err |-> r.err]
              /\ bitset' = r.value
              /\ written' = <<>>
    /\ UNCHANGED iterVars

\* b.set(item) and b.unset(item) on the BitSet made by BitSet::new
BsSetValue(value) ==
    /\ input.fn \in {"new", "set", "unset"}
    /\ output.tag = "Ok"
    /\ \E item \in 0..MaxBits :
          LET r == IF value THEN BitSet_set(bitset, item) ELSE BitSet_unset(bitset, item)
          IN  /\ input' = [input EXCEPT !.fn = IF value THEN "set" ELSE "unset",
                                        !.item = item]
              /\ output' = [tag |-> r.tag, err |-> ""]
              /\ bitset' = r.value
              /\ written' = IF r.tag = "Ok" THEN [written EXCEPT ![item] = value]
                            ELSE written
    /\ UNCHANGED iterVars

BsSet == BsSetValue(TRUE)
BsUnset == BsSetValue(FALSE)

NextBitSet == BsNew \/ BsFromSlice \/ BsSet \/ BsUnset

SpecBitSet == InitBitSet /\ [][NextBitSet]_vars

(***************************************************************************)
(* packet_helpers.rs                                                       *)
(* A cursor is a byte sequence and a position in it; a read gives          *)
(* [tag, err, value, pos]: tag "Ok" with the value and the new position,   *)
(* "Err" with the error, or "Panic".                                       *)
(***************************************************************************)
ReadOk(v, pos) == [tag |-> "Ok", err |-> "", value |-> v, pos |-> pos]
ReadErr(e) == [tag |-> "Err", err |-> e, value |-> 0, pos |-> 0]
ReadPanic == [tag |-> "Panic", err |-> "", value |-> 0, pos |-> 0]

\* read_nbytes: read_exact of desired_bytes bytes
read_nbytes(bytes, pos, desired_bytes) ==
    IF pos + desired_bytes > Len(bytes) THEN ReadErr("Io")
    ELSE ReadOk(SubSeq(bytes, pos + 1, pos + desired_bytes), pos + desired_bytes)

\* the unsigned value of bytes, most significant byte first / last
RECURSIVE BigEndian_uint(_)
BigEndian_uint(b) ==
    IF b = <<>> THEN 0
    ELSE 256 * BigEndian_uint(SubSeq(b, 1, Len(b) - 1)) + b[Len(b)]

RECURSIVE LittleEndian_uint(_)
LittleEndian_uint(b) ==
    IF b = <<>> THEN 0 ELSE Head(b) + 256 * LittleEndian_uint(Tail(b))

\* an unsigned value of the given width read as two's complement
AsSigned(v, bits) == IF v >= 2 ^ (bits - 1) THEN v - 2 ^ bits ELSE v

\* read_known_length_integer_be
read_known_length_integer_be(bytes, pos, n) ==
    IF n \notin {1, 2, 3, 4} THEN ReadPanic
    ELSE LET r == read_nbytes(bytes, pos, n)
         IN  IF r.tag # "Ok" THEN r
             ELSE IF n = 3
             THEN LET buf == r.value
                      is_neg == buf[1] >= 128
                      num == ((buf[1] % 128) * 65536) + (buf[2] * 256) + buf[3]
                  IN  ReadOk(IF is_neg THEN -1 * num ELSE num, r.pos)
             ELSE ReadOk(AsSigned(BigEndian_uint(r.value), 8 * n), r.pos)

\* read_variable_length_bytes: a length in 7-bit groups, least significant
\* first, each byte but the last with its top bit set; then that many bytes.
\* length and shbits are the values before this byte is read.
RECURSIVE read_variable_length(_, _, _, _)
read_variable_length(bytes, pos, length, shbits) ==
    LET r == read_nbytes(bytes, pos, 1)
    IN  IF r.tag # "Ok" THEN r
        ELSE LET byte == r.value[1]
                 len == length + (byte % 128) * (2 ^ shbits)
             IN  IF shbits + 7 >= 57 THEN ReadPanic
                 ELSE IF byte >= 128
                 THEN read_variable_length(bytes, r.pos, len, shbits + 7)
                 ELSE ReadOk(len, r.pos)

read_variable_length_bytes(bytes, pos) ==
    LET l == read_variable_length(bytes, pos, 0, 0)
    IN  IF l.tag # "Ok" THEN l ELSE read_nbytes(bytes, l.pos, l.value)

\* read_var_byte_length_prefixed_bytes
read_var_byte_length_prefixed_bytes(bytes, pos, pl) ==
    IF pl \notin {1, 2, 3, 4, 8} THEN ReadPanic
    ELSE LET l == read_nbytes(bytes, pos, pl)
         IN  IF l.tag # "Ok" THEN l
             ELSE read_nbytes(bytes, l.pos, LittleEndian_uint(l.value))

\* read_datetime_subsecond_part
read_datetime_subsecond_part(bytes, pos, pack_length) ==
    CASE pack_length \in {1, 2} -> read_known_length_integer_be(bytes, pos, 1)
      [] pack_length \in {3, 4} -> read_known_length_integer_be(bytes, pos, 2)
      [] pack_length \in {5, 6} -> read_known_length_integer_be(bytes, pos, 3)
      [] OTHER -> ReadOk(0, pos)

\* Text is a sequence of one-character strings.
DigitChars == <<"0", "1", "2", "3", "4", "5", "6", "7", "8", "9">>

RECURSIVE Digits(_)
Digits(n) ==
    IF n < 10 THEN <<DigitChars[n + 1]>>
    ELSE Digits(n \div 10) \o <<DigitChars[(n % 10) + 1]>>

\* i64::to_string
to_string(n) == IF n < 0 THEN <<"-">> \o Digits(-n) ELSE Digits(n)

\* format!("{:09}", n) for an unsigned n
format_09(n) ==
    LET d == Digits(n)
    IN  IF Len(d) >= 9 THEN d ELSE [i \in 1..(9 - Len(d)) |-> "0"] \o d

\* the digit a character stands for
DigitValue(c) == CHOOSE d \in 0..9 : DigitChars[d + 1] = c

RECURSIVE DigitsValue(_)
DigitsValue(t) ==
    IF t = <<>> THEN 0 ELSE 10 * DigitsValue(SubSeq(t, 1, Len(t) - 1)) + DigitValue(t[Len(t)])

IsDigits(t) == \A i \in 1..Len(t) : \E d \in 1..10 : DigitChars[d] = t[i]

\* str::parse::<BigDecimal>: the text is split at its first '.', the two
\* parts are joined and must be an optional sign and at least one digit; the
\* value is mantissa / 10^scale with scale the length of the second part
parse_BigDecimal(text) ==
    LET dots == {i \in 1..Len(text) : text[i] = "."}
        dot == IF dots = {} THEN Len(text) + 1
               ELSE CHOOSE i \in dots : \A j \in dots : i <= j
        lead == SubSeq(text, 1, dot - 1)
        trail == SubSeq(text, dot + 1, Len(text))
        joined == lead \o trail
        signed == joined # <<>> /\ joined[1] \in {"-", "+"}
        digits == IF signed THEN Tail(joined) ELSE joined
    IN  IF digits = <<>> \/ ~IsDigits(digits)
        THEN [tag |-> "Err", err |-> "BigDecimalParse", mantissa |-> 0, scale |-> 0]
        ELSE [tag |-> "Ok", err |-> "",
              mantissa |-> IF signed /\ joined[1] = "-" THEN -1 * DigitsValue(digits)
                           ELSE DigitsValue(digits),
              scale |-> Len(trail)]

DECIMAL_DIGITS_PER_INTEGER == 9

compressed_byte_map == <<0, 1, 1, 2, 2, 3, 3, 4, 4, 4>>

\* The digit groups of read_new_decimal.  Each step takes the text built so
\* far and the cursor position (acc: [tag, err, text, pos]) and gives them
\* after the step; a failed step is passed on.
GroupsStart == [tag |-> "Ok", err |-> "", text |-> <<>>, pos |-> 0]
GroupsFail(r) == [tag |-> r.tag, err |-> r.err, text |-> <<>>, pos |-> 0]

\* n full groups, each read as a u32 and formatted as nine digits
RECURSIVE full_groups(_, _, _, _)
full_groups(acc, bytes, n, little_endian) ==
    IF acc.tag # "Ok" \/ n = 0 THEN acc
    ELSE LET group(r) ==
                 IF r.tag # "Ok" THEN GroupsFail(r)
                 ELSE full_groups(
                          [acc EXCEPT !.text = @ \o format_09(IF little_endian
                                                              THEN LittleEndian_uint(r.value)
                                                              ELSE BigEndian_uint(r.value)),
                                      !.pos = r.pos],
                          bytes, n - 1, little_endian)
         IN  group(read_nbytes(bytes, acc.pos, 4))

\* a compressed (partial) group of the given number of digits: nothing when
\* digits = 0, else read_known_length_integer_be(...).to_string()
compressed_group(acc, bytes, digits) ==
    IF acc.tag # "Ok" \/ digits = 0 THEN acc
    ELSE LET group(r) ==
                 IF r.tag # "Ok" THEN GroupsFail(r)
                 ELSE [acc EXCEPT !.text = @ \o to_string(r.value), !.pos = r.pos]
         IN  group(read_known_length_integer_be(bytes, acc.pos,
                                                compressed_byte_map[digits + 1]))

\* components.push_str(".")
decimal_point(acc) == IF acc.tag # "Ok" THEN acc ELSE [acc EXCEPT !.text = @ \o <<".">>]

DecimalErr(e) == [tag |-> "Err", err |-> e, mantissa |-> 0, scale |-> 0, pos |-> 0]
DecimalPanic == [tag |-> "Panic", err |-> "", mantissa |-> 0, scale |-> 0, pos |-> 0]

\* read_new_decimal(r, precision, decimal), for decimal <= precision:
\* [tag, err, mantissa, scale, pos], the value being mantissa / 10^scale
read_new_decimal(bytes, pos, precision, decimal) ==
    LET integral == precision - decimal
        uncompressed_integers == integral \div DECIMAL_DIGITS_PER_INTEGER
        uncompressed_decimals == decimal \div DECIMAL_DIGITS_PER_INTEGER
        compressed_integers == integral - (uncompressed_integers * DECIMAL_DIGITS_PER_INTEGER)
        compressed_decimals == decimal - (uncompressed_decimals * DECIMAL_DIGITS_PER_INTEGER)
        bytes_to_read == uncompressed_integers * 4
                         + compressed_byte_map[compressed_integers + 1]
                         + uncompressed_decimals * 4
                         + compressed_byte_map[compressed_decimals + 1]
        \* the text after the sign: the four kinds of groups in turn, read from
        \* buf, which is the bytes read with buf[0] ^= 0x80
        components(buf) ==
            compressed_group(
                full_groups(
                    decimal_point(
                        full_groups(
                            compressed_group(GroupsStart, buf, compressed_integers),
                            buf, uncompressed_integers, FALSE)),
                    buf, uncompressed_decimals, TRUE),
                buf, compressed_decimals)
        parsed(p, end) ==
            [tag |-> p.tag, err |-> p.err, mantissa |-> p.mantissa, scale |-> p.scale,
             pos |-> end]
        decode(is_negative, c, end) ==
            IF c.tag = "Panic" THEN DecimalPanic
            ELSE IF c.tag = "Err" THEN DecimalErr(c.err)
            ELSE parsed(parse_BigDecimal((IF is_negative THEN <<"-">> ELSE <<>>) \o c.text),
                        end)
        body(rd) ==
            IF rd.tag # "Ok" THEN DecimalErr("Io")
            ELSE IF rd.value = <<>> THEN DecimalPanic
            ELSE decode(rd.value[1] < 128,
                        components([rd.value EXCEPT ![1] = IF @ >= 128 THEN @ - 128
                                                           ELSE @ + 128]),
                        rd.pos)
    IN  body(read_nbytes(bytes, pos, bytes_to_read))

\* The packed form of a non-negative decimal with int_digits integral and
\* frac_digits fractional digits (each at most 9, so that there is one group
\* of each, partial or full): the integral digits and the fractional digits
\* each as a big-endian integer of compressed_byte_map[digits] bytes, and the
\* top bit of the first byte set.
BytesBE(v, n) == [i \in 1..n |-> (v \div (256 ^ (n - i))) % 256]

PackedDecimal(int_digits, frac_digits, int_part, frac_part) ==
    LET b == BytesBE(int_part, compressed_byte_map[int_digits + 1])
             \o BytesBE(frac_part, compressed_byte_map[frac_digits + 1])
    IN  IF b = <<>> THEN b ELSE [b EXCEPT ![1] = @ + 128]

\* the decimals that are decoded: up to MaxDigits integral and MaxDigits
\* fractional digits, at least one digit in all
MaxDigits == 5
IntPartSamples == {0, 1, 5, 12, 345, 99999, 100000}
FracPartSamples == {0, 1, 10, 100, 1000, 5, 54321, 99999, 100000}
\* the values of a full group of nine digits (four bytes)
FullGroupSamples == {0, 1, 16777216, 123456789, 500000000}
DecimalInputs ==
    {[fn |-> "read_new_decimal", int_digits |-> i, frac_digits |-> f,
      int_part |-> ip, frac_part |-> fp] :
        i \in 0..MaxDigits, f \in 0..MaxDigits, ip \in IntPartSamples, fp \in FracPartSamples}
    \cup {[fn |-> "read_new_decimal", int_digits |-> 0,
           frac_digits |-> DECIMAL_DIGITS_PER_INTEGER, int_part |-> 0, frac_part |-> fp] :
             fp \in FullGroupSamples}
    \cup {[fn |-> "read_new_decimal", int_digits |-> DECIMAL_DIGITS_PER_INTEGER,
           frac_digits |-> 0, int_part |-> ip, frac_part |-> 0] :
             ip \in FullGroupSamples \cup {999999999}}

InitDecimal ==
    /\ IterUnused
    /\ input \in {d \in DecimalInputs :
                     /\ d.int_digits + d.frac_digits >= 1
                     /\ d.int_digits + d.frac_digits <= DECIMAL_DIGITS_PER_INTEGER
                     /\ d.int_part < 10 ^ d.int_digits
                     /\ d.frac_part < 10 ^ d.frac_digits}
    /\ output = NoOutput
    /\ bitset = NoBitSet
    /\ written = <<>>

\* read_new_decimal(&mut Cursor::new(packed), precision, decimal)
ReadNewDecimal ==
    /\ input.fn = "read_new_decimal"
    /\ output = NoOutput
    /\ output' = read_new_decimal(
                     PackedDecimal(input.int_digits, input.frac_digits,
                                   input.int_part, input.frac_part),
                     0, input.int_digits + input.frac_digits, input.frac_digits)
    /\ UNCHANGED <<iterVars, input, bitset, written>>

NextDecimal == ReadNewDecimal

SpecDecimal == InitDecimal /\ [][NextDecimal]_vars

(***************************************************************************)
(* column_types.rs, value.rs, jsonb.rs                                     *)
(***************************************************************************)
\* enum ColumnType: the variant and its metadata (a, b)
ColumnType(kind, a, b) == [kind |-> kind, a |-> a, b |-> b]

\* ColumnType::from_byte: [tag, value], tag "Panic" for unimplemented!()
ColumnType_from_byte(b) ==
    LET ok(kind) == [tag |-> "Ok", value |-> ColumnType(kind, 0, 0)]
    IN  CASE b = 0   -> ok("Decimal")
          [] b = 1   -> ok("Tiny")
          [] b = 2   -> ok("Short")
          [] b = 3   -> ok("Long")
          [] b = 4   -> ok("Float")
          [] b = 5   -> ok("Double")
          [] b = 6   -> ok("Null")
          [] b = 7   -> ok("Timestamp")
          [] b = 8   -> ok("LongLong")
          [] b = 9   -> ok("Int24")
          [] b = 10  -> ok("Date")
          [] b = 11  -> ok("Time")
          [] b = 12  -> ok("DateTime")
          [] b = 13  -> ok("Year")
          [] b = 14  -> ok("NewDate")
          [] b = 15  -> ok("VarChar")
          [] b = 16  -> ok("Bit")
          [] b = 17  -> ok("Timestamp2")
          [] b = 18  -> ok("DateTime2")
          [] b = 19  -> ok("Time2")
          [] b = 245 -> ok("Json")
          [] b = 246 -> ok("NewDecimal")
          [] b = 247 -> ok("Enum")
          [] b = 248 -> ok("TinyBlob")
          [] b = 250 -> ok("MediumBlob")
          [] b = 251 -> ok("LongBlob")
          [] b = 252 -> ok("Blob")
          [] b = 253 -> ok("VarString")
          [] b = 254 -> ok("MyString")
          [] b = 255 -> ok("Geometry")
          [] OTHER   -> [tag |-> "Panic", value |-> ColumnType("", 0, 0)]

\* ColumnType::read_metadata: the column type with its metadata read from
\* the cursor
read_metadata(ct, bytes, pos) ==
    LET one == read_nbytes(bytes, pos, 1)
        two == read_nbytes(bytes, pos, 2)
    IN  CASE ct.kind \in {"Float", "Double", "Blob", "Geometry", "DateTime2", "Time2",
                          "Timestamp2", "Json"} ->
                IF one.tag # "Ok" THEN one
                ELSE ReadOk(ColumnType(ct.kind, one.value[1], 0), one.pos)
          [] ct.kind = "VarChar" ->
                IF two.tag # "Ok" THEN two
                ELSE IF LittleEndian_uint(two.value) = 0 THEN ReadPanic
                ELSE ReadOk(ColumnType("VarChar", LittleEndian_uint(two.value), 0), two.pos)
          [] ct.kind = "Bit" -> ReadPanic
          [] ct.kind = "NewDecimal" ->
                IF two.tag # "Ok" THEN two
                ELSE ReadOk(ColumnType("NewDecimal", two.value[1], two.value[2]), two.pos)
          [] ct.kind \in {"VarString", "MyString"} ->
                IF two.tag # "Ok" THEN two
                ELSE LET real_type == ColumnType_from_byte(two.value[1])
                     IN  IF real_type.tag = "Ok" /\ real_type.value.kind = "Enum"
                         THEN ReadOk(ColumnType("Enum", two.value[2], 0), two.pos)
                         ELSE ReadPanic
          [] ct.kind = "Enum" ->
                IF two.tag # "Ok" THEN two
                ELSE ReadOk(ColumnType("Enum", LittleEndian_uint(two.value), 0), two.pos)
          [] OTHER -> ReadOk(ct, pos)

\* the value of bytes read as a little-endian two's complement integer
LittleEndian_int(b) ==
    IF b[Len(b)] >= 128
    THEN -1 - LittleEndian_uint([i \in 1..Len(b) |-> 255 - b[i]])
    ELSE LittleEndian_uint(b)

\* read_variable_length_integer: the first byte selects the width; the
\* three-byte form is read into a four-byte buffer whose top byte stays zero
read_variable_length_integer(bytes, pos) ==
    LET first == read_nbytes(bytes, pos, 1)
        int(r, pad) ==
            IF r.tag # "Ok" THEN r ELSE ReadOk(LittleEndian_int(r.value \o pad), r.pos)
    IN  IF first.tag # "Ok" THEN first
        ELSE IF first.value[1] < 251 THEN ReadOk(AsSigned(first.value[1], 8), first.pos)
        ELSE IF first.value[1] = 252 THEN int(read_nbytes(bytes, first.pos, 2), <<>>)
        ELSE IF first.value[1] = 253 THEN int(read_nbytes(bytes, first.pos, 3), <<0>>)
        ELSE IF first.value[1] = 254 THEN int(read_nbytes(bytes, first.pos, 8), <<>>)
        ELSE ReadPanic

\* enum MySQLValue.  num is the number of the integer-like variants, the
\* mantissa of a Decimal (with scale) and the subsecond part of the
\* fractional-second variants; bytes are the bytes the other fields are
\* computed from; json is the tree of a Json value.
NoJson == [variant |-> "", num |-> 0, bytes |-> <<>>, column_type |-> 0,
           base64_payload |-> <<>>, keys |-> <<>>, elems |-> <<>>,
           serialized |-> [variant |-> "", num |-> 0, scale |-> 0, bytes |-> <<>>]]
MySQLValue(variant, num, scale, bytes) ==
    [variant |-> variant, num |-> num, scale |-> scale, bytes |-> bytes, json |-> NoJson]

\* ColumnParseError::UnimplementedTypeError { column_type }
UnimplementedTypeError(ct) ==
    [tag |-> "Err", err |-> "UnimplementedTypeError", value |-> ct, pos |-> 0]

\* the two last arms of ColumnType::read_value
UnsupportedArm(ct, pos) ==
    IF ct.kind \in {"TinyBlob", "MediumBlob", "LongBlob", "VarString", "MyString"}
    THEN UnimplementedTypeError(ct)
    ELSE \* Decimal, NewDate, Bit, Set, Geometry: unimplemented!()
         ReadPanic

\* bitwise and / or of two unsigned values
RECURSIVE BitAnd(_, _)
BitAnd(a, b) ==
    IF a = 0 \/ b = 0 THEN 0 ELSE (a % 2) * (b % 2) + 2 * BitAnd(a \div 2, b \div 2)

RECURSIVE BitOr(_, _)
BitOr(a, b) ==
    IF a = 0 THEN b
    ELSE IF b = 0 THEN a
    ELSE (IF a % 2 = 1 \/ b % 2 = 1 THEN 1 ELSE 0) + 2 * BitOr(a \div 2, b \div 2)

\* ColumnType::Time2: hours, minutes and seconds as computed from the three
\* bytes read
Time2_hours(buf) == BitOr(BitAnd(buf[1], 63) * 16, BitAnd(buf[2], 240) \div 16)
Time2_minutes(buf) == BitOr(BitAnd(buf[2], 15) * 4, BitAnd(buf[3], 176) \div 64)
Time2_seconds(buf) == BitAnd(buf[3], 63)

\* the arms of ColumnType::read_value for every column type but Json:
\* Result<MySQLValue, ColumnParseError>, or a panic
read_value_not_json(ct, bytes, pos) ==
    LET fixed(n, variant) ==
            LET r == read_nbytes(bytes, pos, n)
            IN  IF r.tag # "Ok" THEN r
                ELSE ReadOk(MySQLValue(variant, 0, 0, r.value), r.pos)
        \* a whole part of n bytes followed by read_datetime_subsecond_part
        fractional(n, variant, pack_length) ==
            LET r == read_nbytes(bytes, pos, n)
                f == read_datetime_subsecond_part(bytes, r.pos, pack_length)
            IN  IF r.tag # "Ok" THEN r
                ELSE IF f.tag # "Ok" THEN f
                ELSE ReadOk(MySQLValue(variant, f.value, 0, r.value), f.pos)
    IN  CASE ct.kind = "Tiny" ->
                LET r == read_nbytes(bytes, pos, 1)
                IN  IF r.tag # "Ok" THEN r
                    ELSE ReadOk(MySQLValue("SignedInteger", LittleEndian_int(r.value), 0,
                                           r.value), r.pos)
          [] ct.kind = "Short" ->
                LET r == read_nbytes(bytes, pos, 2)
                IN  IF r.tag # "Ok" THEN r
                    ELSE ReadOk(MySQLValue("SignedInteger", LittleEndian_int(r.value), 0,
                                           r.value), r.pos)
          [] ct.kind = "Long" ->
                LET r == read_nbytes(bytes, pos, 4)
                IN  IF r.tag # "Ok" THEN r
                    ELSE ReadOk(MySQLValue("SignedInteger", LittleEndian_int(r.value), 0,
                                           r.value), r.pos)
          [] ct.kind = "Timestamp" -> fixed(4, "Timestamp")
          [] ct.kind = "LongLong" ->
                LET r == read_nbytes(bytes, pos, 8)
                IN  IF r.tag # "Ok" THEN r
                    ELSE ReadOk(MySQLValue("SignedInteger", LittleEndian_int(r.value), 0,
                                           r.value), r.pos)
          [] ct.kind = "Int24" ->
                \* read_int24: three bytes and a zero byte read as an i32
                LET r == read_nbytes(bytes, pos, 3)
                IN  IF r.tag # "Ok" THEN r
                    ELSE ReadOk(MySQLValue("SignedInteger",
                                           LittleEndian_int(r.value \o <<0>>), 0, r.value),
                                r.pos)
          [] ct.kind = "Null" -> ReadOk(MySQLValue("Null", 0, 0, <<>>), pos)
          [] ct.kind = "VarChar" ->
                LET r == read_var_byte_length_prefixed_bytes(
                             bytes, pos, IF ct.a > 255 THEN 2 ELSE 1)
                IN  IF r.tag # "Ok" THEN r
                    ELSE ReadOk(MySQLValue("String", 0, 0, r.value), r.pos)
          [] ct.kind = "Year" ->
                LET r == read_nbytes(bytes, pos, 1)
                IN  IF r.tag # "Ok" THEN r
                    ELSE ReadOk(MySQLValue("Year", r.value[1] + 1900, 0, r.value), r.pos)
          [] ct.kind = "Date" ->
                LET r == read_nbytes(bytes, pos, 3)
                    val == LittleEndian_uint(r.value)
                    year == val \div 512
                    month == (val \div 32) % 16
                    day == val % 32
                IN  IF r.tag # "Ok" THEN r
                    ELSE IF val = 0 \/ year = 0 \/ month = 0 \/ day = 0
                    THEN ReadOk(MySQLValue("Null", 0, 0, <<>>), r.pos)
                    ELSE ReadOk(MySQLValue("Date", val, 0, r.value), r.pos)
          [] ct.kind = "Time" ->
                LET r == read_nbytes(bytes, pos, 3)
                IN  IF r.tag # "Ok" THEN r
                    ELSE ReadOk(MySQLValue("Time", 0, 0, r.value), r.pos)
          [] ct.kind = "DateTime" ->
                LET r == read_nbytes(bytes, pos, 8)
                    value == LittleEndian_uint(r.value)
                    date == value \div 1000000
                    year == date \div 10000
                    month == (date % 10000) \div 100
                    day == date % 100
                IN  IF r.tag # "Ok" THEN r
                    ELSE IF value = 0 \/ year = 0 \/ month = 0 \/ day = 0
                    THEN ReadOk(MySQLValue("Null", 0, 0, <<>>), r.pos)
                    ELSE ReadOk(MySQLValue("DateTime", 0, 0, r.value), r.pos)
          [] ct.kind = "DateTime2" -> fractional(5, "DateTime", ct.a)
          [] ct.kind = "Timestamp2" -> fractional(4, "Timestamp", ct.a)
          [] ct.kind = "Time2" ->
                \* bytes of the value: <<hours, minutes, seconds>>
                LET time(v) ==
                        IF v.tag # "Ok" THEN v
                        ELSE ReadOk([v.value EXCEPT !.bytes = <<Time2_hours(@),
                                                                Time2_minutes(@),
                                                                Time2_seconds(@)>>], v.pos)
                IN  time(fractional(3, "Time", ct.a))
          [] ct.kind = "Blob" ->
                LET r == read_var_byte_length_prefixed_bytes(bytes, pos, ct.a)
                IN  IF r.tag # "Ok" THEN r
                    ELSE ReadOk(MySQLValue("Blob", 0, 0, r.value), r.pos)
          [] ct.kind \in {"Float", "Double"} ->
                IF ct.a = 4 THEN fixed(4, "Float")
                ELSE IF ct.a = 8 THEN fixed(8, "Double")
                ELSE ReadPanic
          [] ct.kind = "NewDecimal" ->
                LET decimal(body) ==
                        IF body.tag = "Panic" THEN ReadPanic
                        ELSE IF body.tag = "Err" THEN ReadErr("Decimal")
                        ELSE ReadOk(MySQLValue("Decimal", body.mantissa, body.scale, <<>>),
                                    body.pos)
                IN  decimal(read_new_decimal(bytes, pos, ct.a, ct.b))
          [] ct.kind = "Enum" ->
                IF ct.a % 256 \notin {1, 2} THEN ReadPanic
                ELSE LET r == read_nbytes(bytes, pos, ct.a % 256)
                     IN  IF r.tag # "Ok" THEN r
                         ELSE ReadOk(MySQLValue("Enum", LittleEndian_int(r.value), 0,
                                                r.value), r.pos)
          [] OTHER -> UnsupportedArm(ct, pos)

\* the standard base64 alphabet, and base64::encode: text with '=' padding
Base64Alphabet ==
    <<"A", "B", "C", "D", "E", "F", "G", "H", "I", "J", "K", "L", "M", "N", "O", "P",
      "Q", "R", "S", "T", "U", "V", "W", "X", "Y", "Z", "a", "b", "c", "d", "e", "f",
      "g", "h", "i", "j", "k", "l", "m", "n", "o", "p", "q", "r", "s", "t", "u", "v",
      "w", "x", "y", "z", "0", "1", "2", "3", "4", "5", "6", "7", "8", "9", "+", "/">>

RECURSIVE base64_encode(_)
base64_encode(b) ==
    LET c(v) == Base64Alphabet[v + 1]
    IN  CASE Len(b) = 0 -> <<>>
          [] Len(b) = 1 -> <<c(b[1] \div 4), c((b[1] % 4) * 16), "=", "=">>
          [] Len(b) = 2 -> <<c(b[1] \div 4), c((b[1] % 4) * 16 + b[2] \div 16),
                             c((b[2] % 16) * 4), "=">>
          [] OTHER -> <<c(b[1] \div 4), c((b[1] % 4) * 16 + b[2] \div 16),
                        c((b[2] % 16) * 4 + b[3] \div 64), c(b[3] % 64)>>
                      \o base64_encode(SubSeq(b, 4, Len(b)))

JsonErr(e) == [tag |-> "Err", err |-> e, value |-> NoJson, pos |-> 0]
JsonPanic == [tag |-> "Panic", err |-> "", value |-> NoJson, pos |-> 0]
JsonOk(v, pos) == [tag |-> "Ok", err |-> "", value |-> v, pos |-> pos]

\* the last arm of the match in the Custom arm: the two-field object
CustomOtherArm(raw_mysql_column_type, payload) ==
    [NoJson EXCEPT !.variant = "Object",
                   !.column_type = raw_mysql_column_type,
                   !.base64_payload = base64_encode(payload)]

\* value.as_value() of the value read for an opaque column
as_value(v) ==
    IF v.variant = "Null"
    THEN [NoJson EXCEPT !.variant = "Null"]
    ELSE [NoJson EXCEPT !.variant = "Serialized",
                        !.serialized = [variant |-> v.variant, num |-> v.num,
                                        scale |-> v.scale, bytes |-> v.bytes]]

\* the first arm of the match in the Custom arm: the payload read as a column
\* of type column_type (none of these types is Json)
CustomColumnArm(column_type, payload, pos) ==
    LET value(v) ==
            IF v.tag = "Panic" THEN JsonPanic
            ELSE IF v.tag = "Err" THEN JsonErr("OpaqueColumnParseError")
            ELSE JsonOk(as_value(v.value), pos)
        metadata(m) ==
            IF m.tag = "Panic" THEN JsonPanic
            ELSE IF m.tag = "Err" THEN JsonErr("Io")
            ELSE value(read_value_not_json(m.value, payload, m.pos))
    IN  metadata(read_metadata(column_type, payload, 0))

\* the FieldType::Custom arm of parse_any_with_type_indicator
parse_custom(bytes, pos) ==
    LET custom(raw_mysql_column_type, column_type, payload) ==
            IF column_type.tag = "Panic" THEN JsonPanic
            ELSE IF payload.tag = "Panic" THEN JsonPanic
            ELSE IF payload.tag = "Err" THEN JsonErr("Io")
            ELSE IF column_type.value.kind \in
                        {"NewDecimal", "Date", "Time", "Timestamp", "DateTime",
                         "DateTime2", "Time2", "Timestamp2"}
            THEN CustomColumnArm(column_type.value, payload.value, payload.pos)
            ELSE JsonOk(CustomOtherArm(raw_mysql_column_type, payload.value), payload.pos)
        t == read_nbytes(bytes, pos, 1)
    IN  IF t.tag # "Ok" THEN JsonErr("Io")
        ELSE custom(t.value[1], ColumnType_from_byte(t.value[1]),
                    read_variable_length_bytes(bytes, t.pos))

\* FieldType::from_byte
FieldType_from_byte(u) ==
    CASE u = 0  -> "SmallObject"
      [] u = 1  -> "LargeObject"
      [] u = 2  -> "SmallArray"
      [] u = 3  -> "LargeArray"
      [] u = 4  -> "Literal"
      [] u = 5  -> "Int16"
      [] u = 6  -> "Uint16"
      [] u = 7  -> "Int32"
      [] u = 8  -> "Uint32"
      [] u = 9  -> "Int64"
      [] u = 10 -> "Uint64"
      [] u = 11 -> "Double"
      [] u = 12 -> "JsonString"
      [] u = 15 -> "Custom"
      [] OTHER  -> "InvalidTypeByte"

\* enum OffsetOrInline with the type byte read before it
InlineEntry(t, v, pos) ==
    [tag |-> "Ok", err |-> "", t |-> t, inline |-> TRUE, value |-> v, offset |-> 0,
     pos |-> pos]
OffsetEntry(t, o, pos) ==
    [tag |-> "Ok", err |-> "", t |-> t, inline |-> FALSE, value |-> NoJson, offset |-> o,
     pos |-> pos]
EntryErr(e) ==
    [tag |-> "Err", err |-> e, t |-> 0, inline |-> FALSE, value |-> NoJson, offset |-> 0,
     pos |-> 0]

\* the bytes of an offset or element count of a container: 2 or 4
SlotWidth(compound_size) == IF compound_size = "Small" THEN 2 ELSE 4

\* parse_maybe_inlined_value
parse_maybe_inlined_value(bytes, pos, compound_size) ==
    LET t == read_nbytes(bytes, pos, 1)
        number(variant, num, b) == [NoJson EXCEPT !.variant = variant, !.num = num,
                                                  !.bytes = b]
        literal(r) ==
            IF r.tag # "Ok" THEN EntryErr("Io")
            ELSE CASE LittleEndian_uint(r.value) = 0 ->
                        InlineEntry(t.value[1], number("Null", 0, <<>>), r.pos)
                   [] LittleEndian_uint(r.value) = 1 ->
                        InlineEntry(t.value[1], number("Bool", 1, <<>>), r.pos)
                   [] LittleEndian_uint(r.value) = 2 ->
                        InlineEntry(t.value[1], number("Bool", 0, <<>>), r.pos)
                   [] OTHER -> EntryErr("InvalidLiteral")
        uint16(r) ==
            IF r.tag # "Ok" THEN EntryErr("Io")
            ELSE InlineEntry(t.value[1], number("Number", LittleEndian_uint(r.value), <<>>),
                             r.pos)
        int16(r) ==
            IF r.tag # "Ok" THEN EntryErr("Io")
            ELSE InlineEntry(t.value[1], number("Number", LittleEndian_int(r.value), <<>>),
                             r.pos)
        four(variant, r) ==
            IF r.tag # "Ok" THEN EntryErr("Io")
            ELSE InlineEntry(t.value[1], number(variant, 0, r.value), r.pos)
        slot(r) ==
            IF r.tag # "Ok" THEN EntryErr("Io")
            ELSE OffsetEntry(t.value[1], LittleEndian_uint(r.value), r.pos)
    IN  IF t.tag # "Ok" THEN EntryErr("Io")
        ELSE CASE FieldType_from_byte(t.value[1]) = "Literal" ->
                        literal(read_nbytes(bytes, t.pos, 2))
               [] FieldType_from_byte(t.value[1]) = "Uint16" ->
                        uint16(read_nbytes(bytes, t.pos, 2))
               [] FieldType_from_byte(t.value[1]) = "Int16" ->
                        int16(read_nbytes(bytes, t.pos, 2))
               [] FieldType_from_byte(t.value[1]) \in {"Uint32", "Int32"} ->
                        four(FieldType_from_byte(t.value[1]), read_nbytes(bytes, t.pos, 4))
               [] OTHER -> slot(read_nbytes(bytes, t.pos, SlotWidth(compound_size)))

\* parse_any_with_type_indicator and parse_compound call each other
RECURSIVE parse_compound(_, _, _, _)
RECURSIVE parse_any_with_type_indicator(_, _, _)

\* parse_any_with_type_indicator
parse_any_with_type_indicator(bytes, pos, type_indicator) ==
    LET fixed(n, variant) ==
            LET r == read_nbytes(bytes, pos, n)
            IN  IF r.tag # "Ok" THEN JsonErr("Io")
                ELSE JsonOk([NoJson EXCEPT !.variant = variant, !.bytes = r.value], r.pos)
    IN  CASE type_indicator = "Literal" ->
                LET r == read_nbytes(bytes, pos, 1)
                IN  IF r.tag # "Ok" THEN JsonErr("Io")
                    ELSE CASE r.value[1] = 0 -> JsonOk([NoJson EXCEPT !.variant = "Null"], r.pos)
                           [] r.value[1] = 1 ->
                                 JsonOk([NoJson EXCEPT !.variant = "Bool", !.num = 1], r.pos)
                           [] r.value[1] = 2 ->
                                 JsonOk([NoJson EXCEPT !.variant = "Bool", !.num = 0], r.pos)
                           [] OTHER -> JsonErr("InvalidLiteral")
          [] type_indicator = "Int16" ->
                LET r == read_nbytes(bytes, pos, 2)
                IN  IF r.tag # "Ok" THEN JsonErr("Io")
                    ELSE JsonOk([NoJson EXCEPT !.variant = "Number",
                                               !.num = LittleEndian_int(r.value)], r.pos)
          [] type_indicator = "Uint16" ->
                LET r == read_nbytes(bytes, pos, 2)
                IN  IF r.tag # "Ok" THEN JsonErr("Io")
                    ELSE JsonOk([NoJson EXCEPT !.variant = "Number",
                                               !.num = LittleEndian_uint(r.value)], r.pos)
          [] type_indicator \in {"Int32", "Uint32"} -> fixed(4, type_indicator)
          [] type_indicator \in {"Int64", "Uint64", "Double"} -> fixed(8, type_indicator)
          [] type_indicator = "JsonString" ->
                LET r == read_variable_length_bytes(bytes, pos)
                IN  IF r.tag = "Panic" THEN JsonPanic
                    ELSE IF r.tag = "Err" THEN JsonErr("Io")
                    ELSE JsonOk([NoJson EXCEPT !.variant = "String", !.bytes = r.value], r.pos)
          [] type_indicator = "SmallObject" -> parse_compound(bytes, pos, "Small", "Object")
          [] type_indicator = "LargeObject" -> parse_compound(bytes, pos, "Large", "Object")
          [] type_indicator = "SmallArray" -> parse_compound(bytes, pos, "Small", "Array")
          [] type_indicator = "LargeArray" -> parse_compound(bytes, pos, "Large", "Array")
          [] type_indicator = "Custom" -> parse_custom(bytes, pos)

\* the loops of parse_compound: [tag, err, items, pos] with the items read
CompoundOk(items, pos) == [tag |-> "Ok", err |-> "", items |-> items, pos |-> pos]
CompoundFail(tag, e) == [tag |-> tag, err |-> e, items |-> <<>>, pos |-> 0]

\* key_offsets: per key its offset and its size, of which the size is kept
RECURSIVE key_offsets(_, _, _, _, _)
key_offsets(bytes, pos, elems, compound_size, acc) ==
    LET push(r) == IF r.tag # "Ok" THEN CompoundFail("Err", "Io")
                   ELSE key_offsets(bytes, r.pos, elems - 1, compound_size,
                                    Append(acc, LittleEndian_uint(
                                        SubSeq(r.value, SlotWidth(compound_size) + 1,
                                               SlotWidth(compound_size) + 2))))
    IN  IF elems = 0 THEN CompoundOk(acc, pos)
        ELSE push(read_nbytes(bytes, pos, SlotWidth(compound_size) + 2))

\* value_offsets: the directory of values
RECURSIVE value_offsets(_, _, _, _, _)
value_offsets(bytes, pos, elems, compound_size, acc) ==
    LET push(e) == IF e.tag # "Ok" THEN CompoundFail("Err", e.err)
                   ELSE value_offsets(bytes, e.pos, elems - 1, compound_size, Append(acc, e))
    IN  IF elems = 0 THEN CompoundOk(acc, pos)
        ELSE push(parse_maybe_inlined_value(bytes, pos, compound_size))

\* keys: the key texts, one after the other
RECURSIVE compound_keys(_, _, _, _)
compound_keys(bytes, pos, sizes, acc) ==
    LET push(r) == IF r.tag # "Ok" THEN CompoundFail("Err", "Io")
                   ELSE compound_keys(bytes, r.pos, Tail(sizes), Append(acc, r.value))
    IN  IF sizes = <<>> THEN CompoundOk(acc, pos)
        ELSE push(read_nbytes(bytes, pos, Head(sizes)))

\* values: the inlined value, or the value parsed where the cursor is, which
\* is asserted to be the entry's offset from the start of the container
RECURSIVE compound_values(_, _, _, _, _)
compound_values(bytes, pos, start_offset, entries, acc) ==
    LET push(v) == IF v.tag # "Ok" THEN CompoundFail(v.tag, v.err)
                   ELSE compound_values(bytes, v.pos, start_offset, Tail(entries),
                                        Append(acc, v.value))
    IN  IF entries = <<>> THEN CompoundOk(acc, pos)
        ELSE IF Head(entries).inline
        THEN compound_values(bytes, pos, start_offset, Tail(entries),
                             Append(acc, Head(entries).value))
        ELSE IF Head(entries).offset + start_offset # pos THEN CompoundFail("Panic", "")
        ELSE IF FieldType_from_byte(Head(entries).t) = "InvalidTypeByte"
        THEN CompoundFail("Err", "InvalidTypeByte")
        ELSE push(parse_any_with_type_indicator(bytes, pos,
                                                FieldType_from_byte(Head(entries).t)))

\* parse_compound: the element count and byte size, the key directory of an
\* object, the value directory, the keys, the values.  An object is given
\* as its keys and values in directory order.
parse_compound(bytes, pos, compound_size, compound_type) ==
    LET result(ks, vs) ==
            IF vs.tag # "Ok" THEN [JsonPanic EXCEPT !.tag = vs.tag, !.err = vs.err]
            ELSE JsonOk([NoJson EXCEPT !.variant = compound_type, !.keys = ks.items,
                                       !.elems = vs.items], vs.pos)
        values(ks, dir) ==
            IF ks.tag # "Ok" THEN JsonErr(ks.err)
            ELSE result(ks, compound_values(bytes, ks.pos, pos, dir.items, <<>>))
        keys(ko, dir) ==
            IF dir.tag # "Ok" THEN JsonErr(dir.err)
            ELSE values(compound_keys(bytes, dir.pos, ko.items, <<>>), dir)
        directory(elems, ko) ==
            IF ko.tag # "Ok" THEN JsonErr(ko.err)
            ELSE keys(ko, value_offsets(bytes, ko.pos, elems, compound_size, <<>>))
        counts(r) ==
            IF r.tag # "Ok" THEN JsonErr("Io")
            ELSE directory(
                     LittleEndian_uint(SubSeq(r.value, 1, SlotWidth(compound_size))),
                     IF compound_type = "Object"
                     THEN key_offsets(bytes, r.pos,
                                      LittleEndian_uint(
                                          SubSeq(r.value, 1, SlotWidth(compound_size))),
                                      compound_size, <<>>)
                     ELSE CompoundOk(<<>>, r.pos))
    IN  counts(read_nbytes(bytes, pos, 2 * SlotWidth(compound_size)))

\* jsonb::parse and parse_any
jsonb_parse(blob) ==
    LET t == read_nbytes(blob, 0, 1)
    IN  IF t.tag # "Ok" THEN JsonErr("Io")
        ELSE IF FieldType_from_byte(t.value[1]) = "InvalidTypeByte"
        THEN JsonErr("InvalidTypeByte")
        ELSE parse_any_with_type_indicator(blob, t.pos, FieldType_from_byte(t.value[1]))

\* ColumnType::read_value: Result<MySQLValue, ColumnParseError>, or a panic
read_value(ct, bytes, pos) ==
    IF ct.kind = "Json"
    THEN LET body == read_var_byte_length_prefixed_bytes(bytes, pos, ct.a)
             json(j) ==
                 IF j.tag = "Panic" THEN ReadPanic
                 ELSE IF j.tag = "Err" THEN ReadErr("Json")
                 ELSE ReadOk([MySQLValue("Json", 0, 0, <<>>) EXCEPT !.json = j.value],
                             body.pos)
         IN  IF body.tag # "Ok" THEN body ELSE json(jsonb_parse(body.value))
    ELSE read_value_not_json(ct, bytes, pos)


\* Column types and cursor contents read_value is applied to
ColumnSamples ==
    {ColumnType(k, 0, 0) :
        k \in {"Decimal", "Tiny", "Short", "Long", "Null", "Timestamp", "LongLong", "Int24",
               "Date", "Time", "DateTime", "Year", "NewDate", "Set", "TinyBlob",
               "MediumBlob", "LongBlob", "VarString", "MyString"}}
    \cup {ColumnType(k, a, 0) : k \in {"Float", "Double"}, a \in {0, 4, 8}}
    \cup {ColumnType(k, a, 0) : k \in {"Timestamp2", "DateTime2", "Time2"}, a \in {0, 3, 6}}
    \cup {ColumnType("VarChar", a, 0) : a \in {10, 300}}
    \cup {ColumnType("Enum", a, 0) : a \in {0, 1, 2}}
    \cup {ColumnType(k, a, 0) : k \in {"Blob", "Geometry", "Json"}, a \in {0, 1, 2}}
    \cup {ColumnType("Bit", 0, 0), ColumnType("Bit", 1, 1)}
    \cup {ColumnType("NewDecimal", 4, 2), ColumnType("NewDecimal", 5, 5)}

CursorSamples ==
    {<<>>,
     <<1, 4, 0, 0, 0, 0, 0, 0>>,
     <<255, 255, 0, 0, 0, 0, 0, 0>>,
     <<3, 15, 0, 0>>,
     <<2, 4, 1, 0>>,
     <<128, 0, 1, 0, 0>>}

\* Three-byte values of the Int24 and Time2 columns
ThreeByteSamples ==
    {<<a, b, c>> : a \in {0, 1, 128, 255}, b \in {0, 15, 129, 255},
                   c \in {0, 1, 59, 64, 69, 123, 128, 176, 255}}

\* Cursor contents read_variable_length_integer is applied to
IntegerSamples ==
    {<<>>, <<5>>, <<127, 9>>, <<128>>, <<200, 1>>, <<250>>, <<251>>, <<255, 1>>,
     <<252>>, <<252, 1, 2>>, <<252, 0, 128, 7>>, <<252, 255, 255>>,
     <<253, 1, 2>>, <<253, 1, 2, 3, 9>>, <<253, 0, 0, 128>>, <<253, 255, 255, 255>>,
     <<254, 1, 2, 3>>, <<254, 1, 2, 0, 0, 0, 0, 0, 0, 9>>,
     <<254, 255, 255, 255, 255, 255, 255, 255, 255>>}

ValueInputs ==
    [fn : {"read_value"}, column_type : ColumnSamples, bytes : CursorSamples]
    \cup [fn : {"read_value"},
          column_type : {ColumnType("Int24", 0, 0), ColumnType("Time2", 0, 0)},
          bytes : ThreeByteSamples]
    \cup [fn : {"read_variable_length_integer"}, column_type : {ColumnType("Null", 0, 0)},
          bytes : IntegerSamples]

InitValue ==
    /\ IterUnused
    /\ input \in ValueInputs
    /\ output = NoOutput
    /\ bitset = NoBitSet
    /\ written = <<>>

\* column_type.read_value(&mut cursor)
ReadValue ==
    /\ input.fn = "read_value"
    /\ output = NoOutput
    /\ output' = read_value(input.column_type, input.bytes, 0)
    /\ UNCHANGED <<iterVars, input, bitset, written>>

\* read_variable_length_integer(&mut cursor)
ReadVariableLengthInteger ==
    /\ input.fn = "read_variable_length_integer"
    /\ output = NoOutput
    /\ output' = read_variable_length_integer(input.bytes, 0)
    /\ UNCHANGED <<iterVars, input, bitset, written>>

NextValue == ReadValue \/ ReadVariableLengthInteger

SpecValue == InitValue /\ [][NextValue]_vars

\* JSON values of the custom kind: the tag 0x0f, a column-type byte, the
\* payload length and the payload
PayloadSamples == {<<>>, <<1>>, <<255, 16>>, <<77, 97, 110>>, <<0, 0, 0, 0>>}

\* Containers: the arrays and objects of the unit tests, MySQL's encoding of
\* [100000] and [-1] as small arrays and of [true] and [7] as large arrays,
\* an array in an array, and damaged containers
CompoundSamples ==
    {<<2, 5, 0, 21, 0, 4, 1, 0, 4, 2, 0, 4, 0, 0, 5, 0, 0, 12, 19, 0, 1, 48>>,
     <<0, 1, 0, 12, 0, 11, 0, 1, 0, 4, 2, 0, 97>>,
     <<0, 1, 0, 13, 0, 11, 0, 1, 0, 12, 12, 0, 97, 1, 98>>,
     <<2, 1, 0, 11, 0, 7, 7, 0, 160, 134, 1, 0>>,
     <<2, 1, 0, 11, 0, 9, 7, 0, 255, 255, 255, 255, 255, 255, 255, 255>>,
     <<3, 1, 0, 0, 0, 13, 0, 0, 0, 4, 1, 0, 0, 0>>,
     <<3, 1, 0, 0, 0, 13, 0, 0, 0, 5, 7, 0, 0, 0>>,
     <<2, 1, 0, 14, 0, 2, 7, 0, 1, 0, 7, 0, 5, 9, 0>>,
     <<2, 0, 0, 4, 0>>,
     <<0, 0, 0, 4, 0>>,
     <<2, 1, 0, 7, 0, 4, 3, 0>>,
     <<2, 1, 0, 7, 0, 13, 7, 0>>,
     <<2, 1, 0, 7, 0, 12, 9, 0, 1, 48>>,
     <<2, 2, 0, 7, 0, 5, 1, 0>>,
     <<0, 1, 0>>,
     <<1, 1, 0, 0, 0, 22, 0, 0, 0, 19, 0, 0, 0, 1, 0, 12, 20, 0, 0, 0, 97, 1, 98>>}

\* Value directory entries: a type byte and the bytes after it
EntrySamples ==
    {<<t>> \o rest : t \in 0..16,
                     rest \in {<<>>, <<1>>, <<1, 0>>, <<2, 0, 0>>, <<0, 0, 0, 0>>,
                               <<3, 0, 0, 0, 9>>}}

JsonInputs ==
    {[fn |-> "parse", blob |-> <<15, t, Len(p)>> \o p, column_type |-> t, payload |-> p,
      compound_size |-> ""] :
        t \in 0..255, p \in PayloadSamples}
    \cup {[fn |-> "parse_any", blob |-> b, column_type |-> 0, payload |-> <<>>,
           compound_size |-> ""] : b \in CompoundSamples}
    \cup {[fn |-> "parse_maybe_inlined_value", blob |-> b, column_type |-> 0,
           payload |-> <<>>, compound_size |-> c] :
             b \in EntrySamples, c \in {"Small", "Large"}}

InitJson ==
    /\ IterUnused
    /\ input \in JsonInputs
    /\ output = NoOutput
    /\ bitset = NoBitSet
    /\ written = <<>>

\* jsonb::parse(blob)
JsonParse ==
    /\ input.fn = "parse"
    /\ output = NoOutput
    /\ output' = jsonb_parse(input.blob)
    /\ UNCHANGED <<iterVars, input, bitset, written>>

\* parse_any(&mut cursor) on a container
JsonParseAny ==
    /\ input.fn = "parse_any"
    /\ output = NoOutput
    /\ output' = jsonb_parse(input.blob)
    /\ UNCHANGED <<iterVars, input, bitset, written>>

\* parse_maybe_inlined_value(&mut cursor, compound_size)
ParseMaybeInlinedValue ==
    /\ input.fn = "parse_maybe_inlined_value"
    /\ output = NoOutput
    /\ output' = parse_maybe_inlined_value(input.blob, 0, input.compound_size)
    /\ UNCHANGED <<iterVars, input, bitset, written>>

NextJson == JsonParse \/ JsonParseAny \/ ParseMaybeInlinedValue

SpecJson == InitJson /\ [][NextJson]_vars

(***************************************************************************)
(* event.rs: parse_one_row                                                 *)
(***************************************************************************)
\* an entry of RowData (Option<MySQLValue>)
NoColumn == [some |-> FALSE, value |-> MySQLValue("", 0, 0, <<>>)]
SomeColumn(v) == [some |-> TRUE, value |-> v]

RowOk(row, tested, null_bitmask, pos) ==
    [tag |-> "Ok", err |-> "", row |-> row, tested |-> tested,
     null_bitmask |-> null_bitmask, pos |-> pos]
RowErr(e, null_bitmask) ==
    [tag |-> "Err", err |-> e, row |-> <<>>, tested |-> <<>>,
     null_bitmask |-> null_bitmask, pos |-> 0]
RowPanic(null_bitmask) ==
    [tag |-> "Panic", err |-> "", row |-> <<>>, tested |-> <<>>,
     null_bitmask |-> null_bitmask, pos |-> 0]

AbsentColumn_Skipped(row) == row

\* a column whose presence bit is clear: row.push(None)
AbsentColumn(row) == Append(row, NoColumn)

\* the loop of parse_one_row from column i (from 0) on; tested records, for
\* each column, the index of the null bit tested (-1: none)
RECURSIVE row_loop(_, _, _, _, _, _, _, _, _)
row_loop(bytes, pos, columns, present_bitmask, null_bitmask, i, null_index, row, tested) ==
    IF i >= Len(columns) THEN RowOk(row, tested, null_bitmask, pos)
    ELSE
    LET present == BitSet_is_set(present_bitmask, i)
    IN  IF present.tag = "Panic" THEN RowPanic(null_bitmask)
        ELSE IF ~present.value
        THEN row_loop(bytes, pos, columns, present_bitmask, null_bitmask, i + 1,
                      null_index, AbsentColumn(row), Append(tested, -1))
        ELSE
        LET is_null == BitSet_is_set(null_bitmask, null_index)
            push(val) ==
                IF val.tag = "Panic" THEN RowPanic(null_bitmask)
                ELSE IF val.tag = "Err" THEN RowErr(val.err, null_bitmask)
                ELSE row_loop(bytes, val.pos, columns, present_bitmask, null_bitmask,
                              i + 1, null_index + 1, Append(row, SomeColumn(val.value)),
                              Append(tested, null_index))
        IN  IF is_null.tag = "Panic" THEN RowPanic(null_bitmask)
            ELSE IF is_null.value THEN push(ReadOk(MySQLValue("Null", 0, 0, <<>>), pos))
            ELSE push(read_value(columns[i + 1], bytes, pos))

\* parse_one_row(cursor, this_table_map, present_bitmask), columns being
\* this_table_map.columns
parse_one_row(bytes, pos, columns, present_bitmask) ==
    LET num_set_columns == BitSet_bits_set(present_bitmask)
        null_bitmask_size == (num_set_columns + 7) \div 8
        rd == read_nbytes(bytes, pos, null_bitmask_size)
        null_bitmask == BitSet_from_slice(num_set_columns, rd.value)
    IN  IF rd.tag # "Ok" THEN RowErr("Io", NoBitSet)
        ELSE IF null_bitmask.tag # "Ok" THEN RowPanic(NoBitSet)
        ELSE row_loop(bytes, rd.pos, columns, present_bitmask, null_bitmask.value,
                      0, 0, <<>>, <<>>)

\* Tables, declared column counts, presence bitmaps and row bytes
MaxColumns == 2
TableColumns ==
    UNION {[1..n -> {ColumnType("Tiny", 0, 0), ColumnType("Short", 0, 0)}] : n \in 0..MaxColumns}
RowBytes == {<<>>, <<0, 0, 0, 0>>, <<255, 255, 255, 255>>, <<1, 7, 7>>}

\* the presence bitmaps parse_rows_event builds: from_slice(num_columns, ...)
\* on (num_columns + 7) >> 3 bytes
PresentBitmasks ==
    UNION {{BitSet_from_slice(n, s).value : s \in [1..vec_len(n) -> ByteSamples]} :
               n \in 0..MaxBits}

RowInputs ==
    [fn : {"parse_one_row"}, columns : TableColumns,
     present_bitmask : PresentBitmasks, bytes : RowBytes]

InitRow ==
    /\ IterUnused
    /\ input \in RowInputs
    /\ output = NoOutput
    /\ bitset = NoBitSet
    /\ written = <<>>

ParseOneRow ==
    /\ input.fn = "parse_one_row"
    /\ output = NoOutput
    /\ output' = parse_one_row(input.bytes, 0, input.columns, input.present_bitmask)
    /\ UNCHANGED <<iterVars, input, bitset, written>>

NextRow == ParseOneRow

SpecRow == InitRow /\ [][NextRow]_vars

(***************************************************************************)
(* event.rs: parse_rows_event on the bytes of the body, and the column     *)
(* count of a Table Map event                                              *)
(***************************************************************************)
\* `v as usize` of an i64 keeps the 64 bits: a negative number n stands here
\* for the usize 2^64 + n.
as_usize(v) == v

\* (num_elems + 7) >> 3 on usize: the sum carries out of 64 bits for the
\* seven largest values, which panics in a build with overflow checks and
\* wraps in a build without; for the other values above 2^63 the result is
\* about 2^61 (huge).
bitmask_size_of(num_elems, overflow_checks) ==
    IF num_elems >= 0
    THEN [tag |-> "Ok", huge |-> FALSE, value |-> (num_elems + 7) \div 8]
    ELSE IF num_elems + 7 >= 0
    THEN IF overflow_checks THEN [tag |-> "Panic", huge |-> FALSE, value |-> 0]
         ELSE [tag |-> "Ok", huge |-> FALSE, value |-> (num_elems + 7) \div 8]
    ELSE [tag |-> "Ok", huge |-> TRUE, value |-> 0]

\* the state of parse_rows_event: tag "Loop" at the top of the row loop, "Ok",
\* "Err" or "Panic" when it has returned or aborted
RowsState(tag, err, table_id, num_columns, before, after, rows, pos) ==
    [tag |-> tag, err |-> err, table_id |-> table_id, num_columns |-> num_columns,
     before_column_bitmask |-> before, after_column_bitmask |-> after, rows |-> rows,
     pos |-> pos]
RowsFail(tag, err) == RowsState(tag, err, 0, 0, NoBitSet, NoBitSet, <<>>, 0)

\* parse_rows_event up to the row loop: table id, two reserved bytes, two
\* more in a v2 event, the column count and one or two presence bitmaps (a
\* bitmap of a huge size makes read_nbytes allocate that size, which aborts;
\* from_slice takes its length from num_columns in the same way).  The row
\* loop is entered when the table is known.
parse_rows_event_fixed(type_code, bytes, known, overflow_checks) ==
    LET second(table_id, num_columns, before, a) ==
            IF a.tag # "Ok" THEN RowsFail("Err", "Io")
            ELSE RowsState(IF known THEN "Loop" ELSE "Ok", "", table_id, num_columns,
                           before, BitSet_from_slice(num_columns, a.value).value,
                           <<>>, a.pos)
        first(table_id, num_columns, size, b) ==
            IF b.tag # "Ok" THEN RowsFail("Err", "Io")
            ELSE IF type_code \in UpdateRowsTypes
            THEN second(table_id, num_columns,
                        BitSet_from_slice(num_columns, b.value).value,
                        read_nbytes(bytes, b.pos, size))
            ELSE RowsState(IF known THEN "Loop" ELSE "Ok", "", table_id, num_columns,
                           BitSet_from_slice(num_columns, b.value).value, NoBitSet,
                           <<>>, b.pos)
        bitmaps(table_id, num_columns, size, pos) ==
            IF size.tag = "Panic" \/ size.huge THEN RowsFail("Panic", "")
            ELSE first(table_id, num_columns, size.value, read_nbytes(bytes, pos, size.value))
        count(table_id, n) ==
            IF n.tag = "Panic" THEN RowsFail("Panic", "")
            ELSE IF n.tag # "Ok" THEN RowsFail("Err", "Io")
            ELSE bitmaps(table_id, as_usize(n.value),
                         bitmask_size_of(as_usize(n.value), overflow_checks), n.pos)
        extra(table_id, pos) ==
            IF type_code \in {"WriteRowsEventV2", "UpdateRowsEventV2", "DeleteRowsEventV2"}
            THEN IF read_nbytes(bytes, pos, 2).tag # "Ok" THEN RowsFail("Err", "Io")
                 ELSE count(table_id, read_variable_length_integer(bytes, pos + 2))
            ELSE count(table_id, read_variable_length_integer(bytes, pos))
        table(t) ==
            IF t.tag # "Ok" THEN RowsFail("Err", "Io")
            ELSE extra(LittleEndian_uint(t.value), t.pos + 2)
    IN  table(read_nbytes(bytes, 0, 6))

\* enum RowEvent: NewRow and DeletedRow have cols, UpdatedRow has before_cols
\* and after_cols
RowEventOf(type_code, cols, after_cols) ==
    [variant |-> RowVariant(type_code), cols |-> cols, after_cols |-> after_cols]

\* one turn of the row loop of parse_rows_event in state st (tag "Loop"):
\* the loop ends when no byte is left, else one row (two for an update) is
\* decoded and pushed
parse_rows_event_step(type_code, bytes, columns, st) ==
    LET done(tag, err) == [st EXCEPT !.tag = tag, !.err = err]
        pushed(cols, after_cols, pos) ==
            [st EXCEPT !.rows = Append(@, RowEventOf(type_code, cols, after_cols)),
                       !.pos = pos]
        after(b, a) ==
            IF a.tag # "Ok" THEN done(a.tag, a.err) ELSE pushed(b.row, a.row, a.pos)
        row(b) ==
            IF b.tag # "Ok" THEN done(b.tag, b.err)
            ELSE IF type_code \in UpdateRowsTypes
            THEN after(b, parse_one_row(bytes, b.pos, columns, st.after_column_bitmask))
            ELSE pushed(b.row, <<>>, b.pos)
    IN  IF Len(bytes) - st.pos < 1 THEN done("Ok", "")
        ELSE row(parse_one_row(bytes, st.pos, columns, st.before_column_bitmask))

\* the column list of a Table Map event: the column count, which
\* Vec::with_capacity takes as the capacity (more than isize::MAX panics),
\* then one type byte per column
RECURSIVE table_map_column_types(_, _, _, _)
table_map_column_types(bytes, pos, column_count, columns) ==
    LET push(b, ct) ==
            IF ct.tag # "Ok" THEN CompoundFail("Panic", "")
            ELSE table_map_column_types(bytes, b.pos, column_count - 1,
                                        Append(columns, ct.value))
        byte(b) ==
            IF b.tag # "Ok" THEN CompoundFail("Err", "Io")
            ELSE push(b, ColumnType_from_byte(b.value[1]))
    IN  IF column_count = 0 THEN CompoundOk(columns, pos)
        ELSE byte(read_nbytes(bytes, pos, 1))

table_map_columns(bytes, pos) ==
    LET count(n) ==
            IF n.tag = "Panic" THEN CompoundFail("Panic", "")
            ELSE IF n.tag # "Ok" THEN CompoundFail("Err", "Io")
            ELSE IF as_usize(n.value) < 0 THEN CompoundFail("Panic", "")
            ELSE table_map_column_types(bytes, n.pos, as_usize(n.value), <<>>)
    IN  count(read_variable_length_integer(bytes, pos))

\* Rows events and Table Map column lists that are decoded: the bytes of the
\* column count, the bytes after it, the columns of the table if it is
\* known, and whether the build checks arithmetic overflow
MaxRows == 3
CountSamples ==
    {<<0>>, <<1>>, <<2>>, <<9>>, <<128>>, <<200>>, <<249>>, <<250>>, <<251>>, <<252, 2, 0>>}
TailSamples ==
    {<<>>, <<0>>, <<0, 0>>, <<1, 0, 5>>, <<1, 0, 5, 0, 6>>, <<3, 0, 5, 6, 0>>,
     <<1, 1, 0, 5, 0, 6>>, [i \in 1..65 |-> 0]}
TypeByteSamples == {<<>>, <<1>>, <<1, 2>>, <<2, 20>>, [i \in 1..250 |-> 1]}

RowsEventInputs ==
    [fn : {"parse_rows_event"},
     type_code : {"WriteRowsEventV1", "UpdateRowsEventV2", "DeleteRowsEventV1"},
     count : CountSamples, tail : TailSamples, columns : TableColumns,
     known : BOOLEAN, overflow_checks : BOOLEAN]
    \cup [fn : {"table_map_columns"}, type_code : {"TableMapEvent"},
          count : CountSamples, tail : TypeByteSamples, columns : {<<>>},
          known : {FALSE}, overflow_checks : {FALSE}]

\* the body of the rows event: table id 1, the reserved bytes, two more
\* bytes in a v2 event, the column count and what comes after it
RowsBody(in) ==
    <<1, 0, 0, 0, 0, 0, 0, 0>>
    \o (IF in.type_code = "UpdateRowsEventV2" THEN <<2, 0>> ELSE <<>>)
    \o in.count \o in.tail

InitRows ==
    /\ IterUnused
    /\ input \in RowsEventInputs
    /\ output = NoOutput
    /\ bitset = NoBitSet
    /\ written = <<>>

\* parse_rows_event(type_code, data.len(), &mut cursor, table_map) up to the
\* row loop
ParseRowsEvent ==
    /\ input.fn = "parse_rows_event"
    /\ output = NoOutput
    /\ output' = parse_rows_event_fixed(input.type_code, RowsBody(input), input.known,
                                        input.overflow_checks)
    /\ UNCHANGED <<iterVars, input, bitset, written>>

\* one turn of the row loop (at most MaxRows rows are followed)
RowLoop ==
    /\ input.fn = "parse_rows_event"
    /\ output # NoOutput
    /\ output.tag = "Loop"
    /\ Len(output.rows) < MaxRows
    /\ output' = parse_rows_event_step(input.type_code, RowsBody(input), input.columns,
                                       output)
    /\ UNCHANGED <<iterVars, input, bitset, written>>

\* the column list of a Table Map event whose column count is at the cursor
TableMapColumns ==
    /\ input.fn = "table_map_columns"
    /\ output = NoOutput
    /\ output' = table_map_columns(input.count \o input.tail, 0)
    /\ UNCHANGED <<iterVars, input, bitset, written>>

NextRows == ParseRowsEvent \/ RowLoop \/ TableMapColumns

SpecRows == InitRows /\ [][NextRows]_vars

(***************************************************************************)
(* event.rs: Event::read for every event_length                            *)
(***************************************************************************)
\* Headers with every event_length up to MaxEventLength, the bytes the
\* source holds after the header, the build and the allocator
MaxEventLength == 40
HeaderInputs ==
    [fn : {"Event::read"}, event_length : 0..MaxEventLength, avail : {0, 10, 50},
     overflow_checks : BOOLEAN, alloc_ok : BOOLEAN]

InitHeader ==
    /\ IterUnused
    /\ input \in HeaderInputs
    /\ output = NoOutput
    /\ bitset = NoBitSet
    /\ written = <<>>

\* Event::read(reader, offset) after the 19 bytes of the header were read
EventReadBody ==
    /\ input.fn = "Event::read"
    /\ output = NoOutput
    /\ output' = Event_read_body(input.event_length, input.avail, input.overflow_checks,
                                 input.alloc_ok)
    /\ UNCHANGED <<iterVars, input, bitset, written>>

NextHeader == EventReadBody

SpecHeader == InitHeader /\ [][NextHeader]_vars

(***************************************************************************)
(* Claims                                                                  *)
(***************************************************************************)
\* this step is an iteration of the loop that ends the call of next()
Returns == pc = "loop" /\ pc' = "idle"

\* this step is an iteration of the loop in which the framer reads, at its
\* offset, a header and a body that are both within the file
Frames == pc = "loop" /\ offset # None /\ BodyInFile(offset[1], file'[offset[1]][1])

FramedHeader == file'[offset[1]][1]
FramedBody == file'[offset[1]][2]

\* the event at offset 4, which the open has read, is a Format Description event
StartsWithFde == file[4][1].type_code = 15

\* C1: the events next() returns successfully come in strict file order:
\* each returned event's offset is greater than the offset of every event
\* returned before it.  (Stated for the sources that start with a Format
\* Description event.)
C1_StrictFileOrder ==
    [][(Returns /\ ret'.kind = "Ok" /\ StartsWithFde) =>
          ret'.ev.offset > maxEmitted]_vars

\* C2: every emitted event carries the transaction id and the logical
\* timestamp of the Gtid Log event decoded most recently by the iterator, and
\* neither when none has been decoded; the iterator's two fields always equal
\* those of that event, so events of other kinds never change them.
C2_GtidCarried ==
    LET g == IF lastGtidLog = None
             THEN [gtid |-> None, logical_timestamp |-> None]
             ELSE lastGtidLog[1]
    IN  /\ current_gtid = g.gtid
        /\ logical_timestamp = g.logical_timestamp
        /\ ret.kind = "Ok" =>
              /\ ret.ev.gtid = g.gtid
              /\ ret.ev.logical_timestamp = g.logical_timestamp

\* a rows event of a known table is returned with the transaction id and the
\* logical timestamp of the second Gtid Log input
C2_Witness ==
    /\ ret.kind = "Ok"
    /\ ret.ev.gtid = Some(<<2, 8>>)
    /\ ret.ev.logical_timestamp = Some(<<5, 6>>)
    /\ ret.ev.table_name # None

\* the body framed in this step fails to decode in the current iterator state
DecodeFails ==
    /\ Frames
    /\ from_data(TypeCode_from_byte(FramedHeader.type_code), FramedBody,
                 Some(table_map)).tag = "Err"

\* C3 as stated: once next() has returned a decoding error, every later call
\* of next() returns no item.  (Stated for the sources that start with a
\* Format Description event.)
C3_ErrorEndsIteration ==
    [][(errored /\ Returns /\ StartsWithFde) => ret'.kind = "None"]_vars

\* C3 as amended: a body that fails to decode makes next() return that error
\* for that event, and the framer is left at the event's next_position, from
\* where later calls go on reading.
C3_ErrorReturnedFramerAdvanced ==
    [][DecodeFails =>
          /\ Returns
          /\ ret'.kind = "Err"
          /\ raw'.kind = "Ok" /\ raw'.offset = offset[1]
          /\ offset' = Some(FramedHeader.next_position)
          /\ UNCHANGED <<table_map, current_gtid, logical_timestamp>>]_vars

\* an event is returned by a call that follows one which returned an error
C3_Witness == errored /\ pc = "idle" /\ ret.kind = "Ok"

\* C4: the framer yields a Rotate event it reads, and from then on every call
\* of BinlogEvents::next and of EventIterator::next returns no item, whatever
\* the Rotate's next_position and the rest of the source.
C4_RotateEndsIteration ==
    [][/\ (Frames /\ FramedHeader.type_code = 4) =>
              /\ raw' = [kind |-> "Ok", type_code |-> "RotateEvent", offset |-> offset[1]]
              /\ offset' = None
       /\ (rotated /\ pc = "loop") =>
              /\ raw'.kind = "None"
              /\ Returns /\ ret'.kind = "None"
              /\ offset' = None]_vars

\* a call made after the Rotate was read has returned nothing although the
\* Rotate's next_position points at an event that was read before
C4_Witness ==
    /\ rotated /\ pc = "idle" /\ ret.kind = "None" /\ raw.kind = "None"
    /\ \E o \in Slots : /\ Len(file[o]) = 2 /\ file[o][1].type_code = 4
                        /\ file[o][1].next_position \in Slots
                        /\ Len(file[file[o][1].next_position]) = 2

EmittedTypes == {"QueryEvent"} \cup RowsTypes

\* C5: an event returned by EventIterator is the event the framer read last
\* and is a Query event or a Write/Update/Delete Rows event (v1 or v2); events
\* of every other kind end a call of next() only with a decoding error.
C5_OnlyQueryAndRows ==
    /\ ret.kind = "Ok" =>
          /\ ret.ev.type_code \in EmittedTypes
          /\ raw.kind = "Ok"
          /\ ret.ev.type_code = raw.type_code
          /\ ret.ev.offset = raw.offset
    /\ (pc = "idle" /\ raw.kind = "Ok" /\ raw.type_code \notin EmittedTypes) =>
          ret.kind = "Err"

\* a rows event is returned after a Gtid Log and a Table Map event were decoded
C5_Witness ==
    /\ ret.kind = "Ok"
    /\ ret.ev.type_code \in RowsTypes
    /\ lastGtidLog # None
    /\ \E i \in TableIds : table_map[i] # None

\* the event framed in this step is a rows event whose fixed part (table id,
\* reserved bytes, column count, presence bitmaps) is there and whose table id
\* no Table Map event has introduced
RowsOfUnknownTable ==
    /\ Frames
    /\ FramedHeader.type_code \in RowsBytes
    /\ FramedBody.complete
    /\ TableMap_get(table_map, FramedBody.table_id) = None

TruncatedBody ==
    /\ pc = "loop" /\ offset # None
    /\ HeaderInFile(offset[1])
    /\ ~BodyInFile(offset[1], FramedHeader)

\* C7: a full header whose body is cut off by the end of the source makes
\* next() return an I/O error item.  (Stated for the sources that start with
\* a Format Description event.)
C7_TruncatedBodyIsIoError ==
    [][(TruncatedBody /\ StartsWithFde) =>
          (Returns /\ ret'.kind = "Err" /\ ret'.err = "Io")]_vars

\* C8: with fewer than 19 bytes at the framer's offset, next() returns no item
\* and no error and leaves the framer where it is, so that every later call
\* finds the same and returns no item either.
C8_ShortHeaderEndsIteration ==
    [][(pc = "loop" /\ offset # None /\ Avail(offset[1]) < HEADER_LEN) =>
          /\ Returns
          /\ ret'.kind = "None"
          /\ raw'.kind = "None"
          /\ offset' = offset
          /\ file' = file]_vars

\* a call has returned nothing at an offset with some, but fewer than 19, bytes
C8_Witness ==
    /\ pc = "idle" /\ ret.kind = "None" /\ raw.kind = "None"
    /\ offset # None
    /\ Avail(offset[1]) > 0 /\ Avail(offset[1]) < HEADER_LEN

\* C9: opening a source whose first four bytes are not FE 62 69 6E fails with
\* BadMagic carrying those four bytes; nothing further is read and neither a
\* BinlogFile nor an iterator exists.
C9_BadMagic ==
    (status # "new" /\ fileLen >= 4 /\ magic # <<254, 98, 105, 110>>) =>
        /\ status = "failed"
        /\ openErr = [kind |-> "BadMagic", magic |-> magic, inner |-> ""]
        /\ \A o \in Slots : file[o] = <<>>
        /\ offset = None

\* the open of a source that starts with the first byte of the magic and
\* three zero bytes has failed
C9_Witness ==
    /\ status = "failed"
    /\ magic = <<254, 0, 0, 0>>
    /\ openErr.kind = "BadMagic" /\ openErr.magic = <<254, 0, 0, 0>>

\* C10: with valid magic and a first event that is not a Format Description
\* event, opening fails with BadFirstRecord.  (Stated for the first events
\* whose body is complete.)
C10_FirstEventMustBeFde ==
    (status # "new" /\ magic = GoodMagic /\ Len(file[4]) = 2
       /\ file[4][1].type_code # 15 /\ file[4][2].complete) =>
        /\ status = "failed"
        /\ openErr.kind = "BadFirstRecord"

\* the framer reads its first event in this step: nothing was read by the
\* iterator before
FirstRead == pc = "loop" /\ raw = NoRaw /\ offset # None

\* C11: the event at offset 4 is parsed at construction whether or not a start
\* position is given; the first event the iterator reads is at the start
\* position when one is given and at the next_position of the event at
\* offset 4 otherwise; the iterator starts with an empty table map and no
\* current transaction id.
C11_StartOffset ==
    [][/\ (status = "open" /\ status' = "iter") =>
              /\ Len(file[4]) = 2
              /\ first_event_offset = file[4][1].next_position
              /\ offset' = IF start_position = None
                           THEN Some(first_event_offset)
                           ELSE start_position
              /\ table_map' = [i \in TableIds |-> None]
              /\ current_gtid' = None /\ logical_timestamp' = None
       /\ (FirstRead /\ HeaderInFile(offset[1]) /\ BodyInFile(offset[1], FramedHeader)) =>
              /\ raw'.kind = "Ok"
              /\ raw'.offset = IF start_position = None
                               THEN file[4][1].next_position
                               ELSE start_position[1]]_vars

\* the iterator has read its first event at the start position 204 although
\* the Format Description event at offset 4 points at 104: the Table Map
\* event at 104 was not read
C11_Witness ==
    /\ status = "iter" /\ start_position = Some(204)
    /\ file[4][1].type_code = 15 /\ file[4][1].next_position = 104
    /\ raw.kind = "Ok" /\ raw.offset = 204
    /\ file[104][1].type_code = 19 /\ file[104][2].complete
    /\ \A i \in TableIds : table_map[i] = None

\* bit i of a slice, least-significant bit of each byte first
SliceBit(slice, i) == (slice[(i \div 8) + 1] \div (2 ^ (i % 8))) % 2 = 1

\* C18: BitSet::from_slice(N, s) with s of at least ceil(N/8) bytes keeps
\* exactly the first ceil(N/8) bytes of s, and is_set(i) is bit (i & 7),
\* least-significant first, of byte s[i >> 3] for every i < N; a shorter slice
\* is rejected with SliceTooSmall.
C18_FromSlice ==
    input.fn = "from_slice" =>
        LET n == input.num_elems
            s == input.slice
            need == (n + 7) \div 8
        IN  IF Len(s) < need
            THEN output = [tag |-> "Err", err |-> "SliceTooSmall"]
            ELSE /\ output.tag = "Ok"
                 /\ bitset.num_elems = n
                 /\ Len(bitset.inner) = need
                 /\ \A k \in 1..need : bitset.inner[k] = s[k]
                 /\ \A i \in 0..(n - 1) :
                       BitSet_is_set(bitset, i) = [tag |-> "Ok", value |-> SliceBit(s, i)]

\* a BitSet of 9 elements was made from a slice of three bytes
C18_Witness ==
    /\ input.fn = "from_slice" /\ input.num_elems = 9
    /\ input.slice = <<255, 0, 165>>
    /\ output.tag = "Ok" /\ bitset.inner = <<255, 0>>

\* C19: after any sequence of set and unset on a BitSet made by new(N), for
\* every j < N is_set(j) is true exactly when the last operation on j was set
\* (false if j was never touched), so an operation changes no bit but its own,
\* and bits_set() is the number of j < N with is_set(j).
C19_SetUnset ==
    (input.fn \in {"new", "set", "unset"}) =>
        /\ \A j \in 0..(bitset.num_elems - 1) :
              BitSet_is_set(bitset, j) = [tag |-> "Ok", value |-> written[j]]
        /\ BitSet_bits_set(bitset) =
              Cardinality({j \in 0..(bitset.num_elems - 1) : BitSet_is_set(bitset, j).value})

\* in a 9-element BitSet bits 7 and 8 were set last and bit 0 was unset last
C19_Witness ==
    /\ input.fn = "unset" /\ input.item = 0 /\ output.tag = "Ok"
    /\ bitset.num_elems = 9
    /\ written[8] /\ written[7] /\ ~written[0]
    /\ BitSet_bits_set(bitset) = 2

\* C17: for every precision P, scale S and decimal x with P digits of which S
\* are fractional, read_new_decimal(P, S) on the packed form of x gives a value
\* numerically equal to x, also when the fractional partial group has leading
\* zeros (0.01, 0.00001 at scale 5).  (Stated for non-negative x with at most
\* MaxDigits integral and MaxDigits fractional digits; x is
\* int_part + frac_part / 10^frac_digits.)
C17_DecimalRoundTrip ==
    (input.fn = "read_new_decimal" /\ output # NoOutput
        /\ input.int_digits <= MaxDigits /\ input.frac_digits <= MaxDigits) =>
        /\ output.tag = "Ok"
        /\ output.mantissa * (10 ^ input.frac_digits)
              = (input.int_part * (10 ^ input.frac_digits) + input.frac_part)
                    * (10 ^ output.scale)


\* The column kinds the value reader does not support
UnsupportedKinds ==
    {"TinyBlob", "MediumBlob", "LongBlob", "VarString", "Bit", "Set", "Geometry",
     "NewDate", "Decimal"}

\* C14: reading a value of an unsupported column kind (tiny/medium/long blob,
\* varstring, bit, set, geometry, legacy date, decimal v1) returns the
\* UnimplementedTypeError naming that kind: it does not abort and yields no
\* value.
C14_UnsupportedKinds ==
    (input.fn = "read_value" /\ output # NoOutput
        /\ input.column_type.kind \in UnsupportedKinds) =>
        /\ output.tag = "Err"
        /\ output.err = "UnimplementedTypeError"
        /\ output.value = input.column_type


\* The column-type bytes of newdecimal, date, time, timestamp, datetime and
\* their fractional-second variants
SpecialOpaqueTypes == {246, 10, 11, 7, 12, 17, 18, 19}

\* The base64 text of the payloads decoded
ExpectedBase64(p) ==
    CASE p = <<>> -> <<>>
      [] p = <<1>> -> <<"A", "Q", "=", "=">>
      [] p = <<255, 16>> -> <<"/", "x", "A", "=">>
      [] p = <<77, 97, 110>> -> <<"T", "W", "F", "u">>
      [] p = <<0, 0, 0, 0>> -> <<"A", "A", "A", "A", "A", "A", "=", "=">>

\* C20: a JSON custom value (tag 0x0f) whose column-type byte is none of
\* newdecimal, date, time, timestamp, datetime and their fractional-second
\* variants decodes, for every byte 0..255, to the object
\* {column_type: the byte, base64_payload: base64 of the payload}: it does
\* not abort and returns no error.
C20_OpaqueObject ==
    (input.fn = "parse" /\ output # NoOutput
        /\ input.column_type \notin SpecialOpaqueTypes) =>
        /\ output.tag = "Ok"
        /\ output.value.variant = "Object"
        /\ output.value.column_type = input.column_type
        /\ output.value.base64_payload = ExpectedBase64(input.payload)


\* C12: a row decoded successfully against a table has exactly as many
\* entries as the table's column list, whatever column count the rows event
\* declares (the size of the presence bitmap).
C12_RowLength ==
    (input.fn = "parse_one_row" /\ output # NoOutput /\ output.tag = "Ok") =>
        Len(output.row) = Len(input.columns)

\* a row of a two-column table decoded with nine declared columns, the
\* second one absent
C12_Witness ==
    /\ input.fn = "parse_one_row" /\ output # NoOutput /\ output.tag = "Ok"
    /\ Len(input.columns) = 2
    /\ input.present_bitmask.num_elems = 9
    /\ output.row[1].some /\ ~output.row[2].some

\* the number of set presence bits at an index below num_columns
RECURSIVE PresentBelow(_, _)
PresentBelow(bs, n) ==
    IF n = 0 THEN 0
    ELSE PresentBelow(bs, n - 1) + Bit(bs.inner[((n - 1) \div 8) + 1], (n - 1) % 8)

\* the indices of the null bits the present columns are to be tested against
RECURSIVE ExpectedTests(_, _)
ExpectedTests(bs, n) ==
    IF n = 0 THEN <<>>
    ELSE Append(ExpectedTests(bs, n - 1),
                IF Bit(bs.inner[((n - 1) \div 8) + 1], (n - 1) % 8) = 1
                THEN PresentBelow(bs, n - 1) ELSE -1)

\* C13: the null bitmap of a row covers exactly K bits, K being the number
\* of set bits of the presence bitmap at an index below num_columns (padding
\* bits beyond num_columns do not count), and the k-th present column is
\* tested against null bit k.
C13_NullBitmap ==
    (input.fn = "parse_one_row" /\ output # NoOutput /\ output.tag = "Ok") =>
        LET K == PresentBelow(input.present_bitmask, input.present_bitmask.num_elems)
        IN  /\ output.null_bitmask.num_elems = K
            /\ Len(output.null_bitmask.inner) = (K + 7) \div 8
            /\ output.tested = ExpectedTests(input.present_bitmask, Len(input.columns))


\* the event framed in this step is a Gtid Log event whose uuid and
\* coordinate are there
FramesGtidLog == Frames /\ FramedHeader.type_code = 33 /\ FramedBody.complete

\* C15: a Gtid Log event whose byte after the coordinate is 0x02 sets the
\* iterator's logical timestamp to the two fields that follow; a Gtid Log
\* event with another byte there, or with none, clears it; an event next()
\* returns carries the iterator's logical timestamp, so none after a clearing
\* Gtid Log event even if an earlier one had set one.
C15_LogicalTimestamp ==
    [][/\ FramesGtidLog =>
              LET t == FramedBody.trailer
              IN  IF t # <<>> /\ t[1] = 2
                  THEN Len(t) >= 3 => logical_timestamp' = Some(<<t[2], t[3]>>)
                  ELSE logical_timestamp' = None
       /\ (Returns /\ ret'.kind = "Ok") =>
              /\ ret'.ev.logical_timestamp = logical_timestamp'
              /\ logical_timestamp' = logical_timestamp]_vars

\* a Gtid Log event with the 0x02 byte at 104, one with another byte at 204,
\* and the event at 304 returned with the second one's transaction id and no
\* logical timestamp
C15_Witness ==
    /\ file[104][1].type_code = 33 /\ file[104][2].trailer = <<2, 5, 6>>
    /\ file[204][1].type_code = 33 /\ file[204][2].trailer = <<1>>
    /\ ret.kind = "Ok" /\ ret.ev.offset = 304
    /\ ret.ev.gtid = Some(<<1, 7>>)
    /\ ret.ev.logical_timestamp = None

\* the event framed in this step is a Table Map event that decodes
FramesTableMap == Frames /\ FramedHeader.type_code = 19 /\ FramedBody.complete

ExpectedInteger(bytes) ==
    CASE bytes[1] < 251 -> ReadOk(AsSigned(bytes[1], 8), 1)
      [] bytes[1] = 252 -> ReadOk(LittleEndian_int(SubSeq(bytes, 2, 3)), 3)
      [] bytes[1] = 253 -> ReadOk(LittleEndian_int(SubSeq(bytes, 2, 4)), 4)
      [] bytes[1] = 254 -> ReadOk(LittleEndian_int(SubSeq(bytes, 2, 9)), 9)

\* the bytes the first byte announces are all there
WholeInteger(bytes) ==
    /\ bytes # <<>>
    /\ bytes[1] \notin {251, 255}
    /\ Len(bytes) >= (CASE bytes[1] < 251 -> 1 [] bytes[1] = 252 -> 3
                        [] bytes[1] = 253 -> 4 [] bytes[1] = 254 -> 9)

\* C21: read_variable_length_integer gives, for a first byte below 0xfb, the
\* signed value of that byte; for 0xfc, 0xfd and 0xfe the next 2, 3 and 8
\* bytes as a little-endian signed integer (the 3-byte one sign-extended);
\* it consumes 1, 3, 4 and 9 bytes.
C21_VariableLengthInteger ==
    (input.fn = "read_variable_length_integer" /\ output # NoOutput
        /\ WholeInteger(input.bytes)) =>
        output = ExpectedInteger(input.bytes)

\* The input is a read_value of the given column kind over three bytes
ThreeByteRead(kind) ==
    /\ input.fn = "read_value"
    /\ output # NoOutput
    /\ input.column_type = ColumnType(kind, 0, 0)
    /\ Len(input.bytes) = 3

\* The 24-bit word of a Time2 value, most significant byte first
Time2Word == BigEndian_uint(input.bytes)

\* C22: a Time2 value is a big-endian 24-bit word of 1 sign bit, 1 unused
\* bit, 10 bits hours, 6 bits minutes and 6 bits seconds; for every 3-byte
\* input the decoded hours, minutes and seconds are those bit fields.
C22_Time2Fields ==
    ThreeByteRead("Time2") =>
        /\ output.tag = "Ok"
        /\ output.value.variant = "Time"
        /\ output.value.bytes = <<(Time2Word \div 4096) % 1024,
                                  (Time2Word \div 64) % 64,
                                  Time2Word % 64>>

\* C23: an Int24 column is 3 bytes read as a little-endian signed 24-bit
\* integer: negative (-8388608..-1) when bit 7 of the third byte is set,
\* and 0..8388607 otherwise.
C23_Int24Signed ==
    ThreeByteRead("Int24") =>
        /\ output.tag = "Ok"
        /\ output.value.variant = "SignedInteger"
        /\ output.value.num = AsSigned(LittleEndian_uint(input.bytes), 24)
        /\ (input.bytes[3] >= 128) = (output.value.num < 0)

\* C24: a value directory entry of a container is 1 type byte and one slot
\* of the container's width (2 bytes small, 4 bytes large) whatever its tag,
\* so a directory of N entries ends at the first key or first value.
C24_EntryWidth ==
    (input.fn = "parse_maybe_inlined_value" /\ output # NoOutput /\ output.tag = "Ok") =>
        output.pos = 1 + SlotWidth(input.compound_size)

\* C25: with scale 9 the full fractional group is read as a 4-byte
\* big-endian integer and rendered as nine digits, like a full integral
\* group: the nine fractional digits packed are the nine digits decoded.
C25_FullFractionalGroup ==
    (input.fn = "read_new_decimal" /\ output # NoOutput
        /\ input.frac_digits = DECIMAL_DIGITS_PER_INTEGER) =>
        /\ output.tag = "Ok"
        /\ output.scale = DECIMAL_DIGITS_PER_INTEGER
        /\ output.mantissa = input.frac_part

\* a full integral group is decoded to the nine digits packed
FullIntegralGroup ==
    (input.fn = "read_new_decimal" /\ output # NoOutput
        /\ input.int_digits = DECIMAL_DIGITS_PER_INTEGER) =>
        /\ output.tag = "Ok"
        /\ output.scale = 0
        /\ output.mantissa = input.int_part

\* C26: an event next() returns has, if its row list is non-empty, both
\* schema_name and table_name and no query; it has schema_name exactly when
\* it has table_name; and if it carries a query it has no rows, no
\* schema_name and no table_name.
C26_EventShape ==
    ret.kind = "Ok" =>
        /\ ret.ev.rows # <<>> =>
              /\ ret.ev.schema_name # None
              /\ ret.ev.table_name # None
              /\ ret.ev.query = None
        /\ (ret.ev.schema_name # None) <=> (ret.ev.table_name # None)
        /\ ret.ev.query # None =>
              /\ ret.ev.rows = <<>>
              /\ ret.ev.schema_name = None
              /\ ret.ev.table_name = None

\* a rows event of a known table, read past the first event of the file, is
\* returned with its rows and both names
C26_Witness ==
    /\ ret.kind = "Ok"
    /\ ret.ev.rows # <<>>
    /\ ret.ev.schema_name # None
    /\ ret.ev.table_name # None
    /\ ret.ev.query = None
    /\ maxEmitted > 4

\* C27: every turn of the row loop of parse_rows_event consumes at least one
\* byte of the body, also when no column is present in the row or the
\* event declares no column: the loop ends by exhausting the body or by an
\* error.
C27_RowLoopConsumes ==
    [][(input.fn = "parse_rows_event" /\ output # NoOutput /\ output.tag = "Loop"
            /\ output'.tag = "Loop")
        => output'.pos > output.pos]_vars

\* The column count is the single byte b, 128 to 250, and the bytes of the
\* presence bitmaps (of the type bytes of the columns) follow it
CountByteHigh ==
    /\ Len(input.count) = 1
    /\ input.count[1] \in 128..250
    /\ output # NoOutput
    /\ \/ input.fn = "parse_rows_event" /\ Len(input.tail) >= 2 * vec_len(input.count[1])
       \/ input.fn = "table_map_columns" /\ Len(input.tail) >= input.count[1]

\* C30: a column count given as the single byte b in 0x80..0xfa is the
\* count b: the presence bitmaps of a rows event have ceil(b / 8) bytes and
\* the column list of a Table Map event has b columns.
C30_ColumnCount ==
    CountByteHigh =>
        /\ output.tag \in {"Ok", "Loop"}
        /\ input.fn = "parse_rows_event" =>
              /\ output.num_columns = input.count[1]
              /\ Len(output.before_column_bitmask.inner) = vec_len(input.count[1])
        /\ input.fn = "table_map_columns" => Len(output.items) = input.count[1]

\* C29: the body length read is event_length - 19 - 4 computed without
\* wrap-around; a header whose event_length is below 23 is rejected with an
\* error value: no underflow, no arithmetic abort, no body buffer of about
\* 2^32 or 2^64 bytes.
C29_BodyLength ==
    (input.fn = "Event::read" /\ output # NoOutput) =>
        /\ output.tag # "Panic"
        /\ output.buffer # "huge"
        /\ output.data_length.wrapped = "no"
        /\ output.data_length.value = input.event_length - HEADER_LEN - CHECKSUM_LEN
        /\ input.event_length < HEADER_LEN + CHECKSUM_LEN => output.tag = "Err"

\* the same for the headers whose event_length is 23 or more
BodyLengthFrom23 ==
    (input.fn = "Event::read" /\ output # NoOutput
        /\ input.event_length >= HEADER_LEN + CHECKSUM_LEN) =>
        /\ output.tag # "Panic"
        /\ output.buffer = "exact"
        /\ output.data_length.wrapped = "no"
        /\ output.data_length.value = input.event_length - HEADER_LEN - CHECKSUM_LEN

\* C28: every call of EventIterator::next returns: a header whose
\* next_position is not beyond its own offset (a Gtid Log or Table Map event
\* pointing at itself) does not keep the loop of next() going for ever.
C28_NextReturns == (pc = "loop") ~> (pc = "idle")

\* within a call of next() the framer goes to greater offsets only
OffsetsIncrease ==
    [][(pc = "loop" /\ pc' = "loop" /\ offset # None /\ offset' # None)
        => offset'[1] > offset[1]]_vars

====
